---- MODULE Spec2Model ----
(***************************************************************************)
(* Model of the chalkin vector-path-to-GPS-track pipeline:                 *)
(*   parse_svg_path_commands / svg_to_points / scale_and_center_points     *)
(*   (app/utils/svg_parser.py) and generate_gpx_from_points /              *)
(*   generate_gpx_file (app/routers/strava.py).                            *)
(*                                                                         *)
(* Strings are sequences of one-character strings.  Python floats are      *)
(* modelled by exact rationals <<n, d>> in lowest terms with d > 0.        *)
(* A call either returns a value or raises: [ok, val, err].                *)
(*                                                                         *)
(* and of the chalkin API over its database (app/routers/social.py,        *)
(* sessions.py, ascents.py, grades.py, gyms.py, auth.py, invitations.py,   *)
(* stats.py): a table is a set of rows, a handler is one action, or two    *)
(* (its reads, then its commit) where requests are served concurrently.    *)
(***************************************************************************)
EXTENDS Integers, Sequences, FiniteSets, TLC

VARIABLES pc, path_d, num_points, commands, raw_points, points,
          center_lat, center_lon, scale_meters, gps_points,
          start_time, duration, gpx,
          \* the database tables of the API: sets of rows
          users, invitations, friendships, gyms, grades, sessions, ascents,
          strava_connections,
          \* the clock (datetime.utcnow()), the requests whose handler
          \* has read the database and not yet committed, and the last response
          now, inflight, response

\* the state of the path-to-track pipeline
pipeline_vars == <<pc, path_d, num_points, commands, raw_points, points,
                   center_lat, center_lon, scale_meters, gps_points,
                   start_time, duration, gpx>>

\* the state of the API: the database, the clock, requests and responses
app_vars == <<users, invitations, friendships, gyms, grades, sessions, ascents,
              strava_connections, now, inflight, response>>

vars == <<pipeline_vars, app_vars>>

(* ------------------------------------------------------------------ *)
(* Bounds of the model                                                 *)
(* ------------------------------------------------------------------ *)
\* longest path description, counted in drawing commands
MaxCmds == 3
\* largest target point count handed to svg_to_points
MaxN == 6
\* longest planar point list handed directly to scale_and_center_points
MaxPts == 3
\* longest GPS point list handed directly to generate_gpx_from_points
MaxTrack == 5

(* ------------------------------------------------------------------ *)
(* Call outcomes                                                       *)
(* ------------------------------------------------------------------ *)
Ok(v) == [ok |-> TRUE, val |-> v, err |-> ""]

Raise(e) == [ok |-> FALSE, val |-> <<>>, err |-> e]

NotCalled == [ok |-> FALSE, val |-> <<>>, err |-> "not called"]

(* ------------------------------------------------------------------ *)
(* Exact rational arithmetic standing for Python float arithmetic      *)
(* ------------------------------------------------------------------ *)
Abs(a) == IF a < 0 THEN -a ELSE a

RECURSIVE GCD(_, _)
GCD(a, b) == IF b = 0 THEN a ELSE GCD(b, a % b)

Rat(n, d) ==
    LET s == IF d < 0 THEN -1 ELSE 1
        g == GCD(Abs(n), Abs(d))
    IN  <<(s * n) \div g, (s * d) \div g>>

Int2Rat(n) == <<n, 1>>

LCM(a, b) == (a \div GCD(a, b)) * b

RAdd(a, b) ==
    LET l == LCM(a[2], b[2])
    IN  Rat(a[1] * (l \div a[2]) + b[1] * (l \div b[2]), l)

RNeg(a) == <<-a[1], a[2]>>

RSub(a, b) == RAdd(a, RNeg(b))

RMul(a, b) ==
    LET g1 == GCD(Abs(a[1]), b[2])
        g2 == GCD(Abs(b[1]), a[2])
    IN  Rat((a[1] \div g1) * (b[1] \div g2), (a[2] \div g2) * (b[2] \div g1))

\* b # 0 is the caller's obligation (Python raises ZeroDivisionError)
RDiv(a, b) == RMul(a, Rat(b[2], b[1]))

RLt(a, b) == RSub(a, b)[1] < 0

RIsZero(a) == a[1] = 0

RMin2(a, b) == IF RLt(b, a) THEN b ELSE a

RMax2(a, b) == IF RLt(a, b) THEN b ELSE a

RECURSIVE RMinSeq(_)
RMinSeq(s) == IF Len(s) = 1 THEN s[1] ELSE RMin2(s[1], RMinSeq(Tail(s)))

RECURSIVE RMaxSeq(_)
RMaxSeq(s) == IF Len(s) = 1 THEN s[1] ELSE RMax2(s[1], RMaxSeq(Tail(s)))

(* ------------------------------------------------------------------ *)
(* parse_svg_path_commands                                             *)
(* ------------------------------------------------------------------ *)
\* [MLCQZHVSATmlcqzhvsat]
CommandLetters == {"M", "L", "C", "Q", "Z", "H", "V", "S", "A", "T",
                   "m", "l", "c", "q", "z", "h", "v", "s", "a", "t"}

\* \d
DigitChars == {"0", "1", "2", "3", "4", "5", "6", "7", "8", "9"}

\* \s
SpaceChars == {" ", "\n", "\t"}

\* [-\d.]
NumberChars == DigitChars \cup {"-", "."}

\* [-\d.,\s]
ParamChars == NumberChars \cup {","} \cup SpaceChars

\* first index >= i of s whose character is not in cs (Len(s) + 1 if none)
RECURSIVE SkipWhile(_, _, _)
SkipWhile(s, i, cs) ==
    IF i > Len(s) \/ s[i] \notin cs THEN i ELSE SkipWhile(s, i + 1, cs)

\* command_pattern.findall(path_d): a command letter, \s*, then the longest
\* run of parameter characters (empty when none follows)
RECURSIVE FindCommands(_, _)
FindCommands(s, i) ==
    IF i > Len(s) THEN <<>>
    ELSE IF s[i] \notin CommandLetters THEN FindCommands(s, i + 1)
    ELSE LET j == SkipWhile(s, i + 1, SpaceChars)
             k == SkipWhile(s, j, ParamChars)
         IN  <<[cmd |-> s[i], params_str |-> SubSeq(s, j, k - 1)]>>
                 \o FindCommands(s, k)

\* re.findall(r'[-\d.]+', params_str): the maximal runs of number characters
RECURSIVE FindNumberTokens(_, _)
FindNumberTokens(s, i) ==
    IF i > Len(s) THEN <<>>
    ELSE IF s[i] \notin NumberChars THEN FindNumberTokens(s, i + 1)
    ELSE LET k == SkipWhile(s, i, NumberChars)
         IN  <<SubSeq(s, i, k - 1)>> \o FindNumberTokens(s, k)

DigitValue(c) ==
    CASE c = "0" -> 0 [] c = "1" -> 1 [] c = "2" -> 2 [] c = "3" -> 3
      [] c = "4" -> 4 [] c = "5" -> 5 [] c = "6" -> 6 [] c = "7" -> 7
      [] c = "8" -> 8 [] c = "9" -> 9

CountChar(s, c) == Cardinality({i \in 1..Len(s) : s[i] = c})

\* the unsigned part of a token: digits with at most one point, one digit at least
IsUnsignedDecimal(s) ==
    /\ \A i \in 1..Len(s) : s[i] \in DigitChars \cup {"."}
    /\ CountChar(s, ".") <= 1
    /\ \E i \in 1..Len(s) : s[i] \in DigitChars

\* does float(tok) accept the token (a token holds only - . and digits)
FloatAccepts(tok) ==
    /\ Len(tok) > 0
    /\ IF tok[1] = "-" THEN IsUnsignedDecimal(Tail(tok))
                       ELSE IsUnsignedDecimal(tok)

\* value of the digits of s read as one integer, the point skipped
RECURSIVE DigitsValue(_, _)
DigitsValue(s, acc) ==
    IF s = <<>> THEN acc
    ELSE IF Head(s) = "." THEN DigitsValue(Tail(s), acc)
    ELSE DigitsValue(Tail(s), 10 * acc + DigitValue(Head(s)))

RECURSIVE Pow10(_)
Pow10(k) == IF k = 0 THEN 1 ELSE 10 * Pow10(k - 1)

\* number of digits after the point
FractionDigits(s) ==
    IF CountChar(s, ".") = 0 THEN 0
    ELSE Len(s) - (CHOOSE i \in 1..Len(s) : s[i] = ".")

UnsignedValue(s) == Rat(DigitsValue(s, 0), Pow10(FractionDigits(s)))

\* float(tok) for an accepted token
FloatValue(tok) ==
    IF tok[1] = "-" THEN RNeg(UnsignedValue(Tail(tok))) ELSE UnsignedValue(tok)

\* ParseParams leaving out the tokens float() does not accept
ParseParamsDropping(params_str) ==
    LET toks == FindNumberTokens(params_str, 1)
        good == SelectSeq(toks, FloatAccepts)
    IN  Ok([i \in 1..Len(good) |-> FloatValue(good[i])])

\* [float(x) for x in re.findall(r'[-\d.]+', params_str)]
ParseParams(params_str) ==
    LET toks == FindNumberTokens(params_str, 1)
    IN  IF \A i \in 1..Len(toks) : FloatAccepts(toks[i])
        THEN Ok([i \in 1..Len(toks) |-> FloatValue(toks[i])])
        ELSE Raise("ValueError")

\* parse_svg_path_commands(path_d): list of (cmd, params), or ValueError
parse_svg_path_commands(s) ==
    LET matches == FindCommands(s, 1)
        parsed  == [i \in 1..Len(matches) |-> ParseParams(matches[i].params_str)]
    IN  IF \A i \in 1..Len(matches) : parsed[i].ok
        THEN Ok([i \in 1..Len(matches) |->
                    [cmd |-> matches[i].cmd, params |-> parsed[i].val]])
        ELSE Raise("ValueError")

(* ------------------------------------------------------------------ *)
(* svg_to_points: walking the commands                                 *)
(* ------------------------------------------------------------------ *)
\* the cursor of the walk: the points so far, the current position, the
\* sub-path start, and the exception raised, if any
InitialCursor ==
    [points |-> <<>>, current_x |-> Int2Rat(0), current_y |-> Int2Rat(0),
     start_x |-> Int2Rat(0), start_y |-> Int2Rat(0), err |-> ""]

Fail(st, e) == [st EXCEPT !.err = e]

\* points.append((x, y)) after the cursor moved to (x, y)
LineToPoint(st, x, y) ==
    [st EXCEPT !.current_x = x, !.current_y = y,
               !.points = Append(st.points, <<x, y>>)]

\* 'M' and 'm': params[0], params[1]; the sub-path start follows the cursor
MoveTo(st, params, relative) ==
    IF Len(params) < 2 THEN Fail(st, "IndexError")
    ELSE LET x == IF relative THEN RAdd(st.current_x, params[1]) ELSE params[1]
             y == IF relative THEN RAdd(st.current_y, params[2]) ELSE params[2]
         IN  [st EXCEPT !.current_x = x, !.current_y = y,
                        !.start_x = x, !.start_y = y,
                        !.points = Append(st.points, <<x, y>>)]

\* 'L' and 'l': for i in range(0, len(params), 2): params[i], params[i+1]
RECURSIVE LineTo(_, _, _, _)
LineTo(st, params, i, relative) ==
    IF i > Len(params) THEN st
    ELSE IF i + 1 > Len(params) THEN Fail(st, "IndexError")
    ELSE LET x == IF relative THEN RAdd(st.current_x, params[i]) ELSE params[i]
             y == IF relative THEN RAdd(st.current_y, params[i + 1])
                              ELSE params[i + 1]
         IN  LineTo(LineToPoint(st, x, y), params, i + 2, relative)

\* 'H' and 'h': for x in params
RECURSIVE HorizontalTo(_, _, _, _)
HorizontalTo(st, params, i, relative) ==
    IF i > Len(params) THEN st
    ELSE LET x == IF relative THEN RAdd(st.current_x, params[i]) ELSE params[i]
         IN  HorizontalTo(LineToPoint(st, x, st.current_y), params, i + 1, relative)

\* 'V' and 'v': for y in params
RECURSIVE VerticalTo(_, _, _, _)
VerticalTo(st, params, i, relative) ==
    IF i > Len(params) THEN st
    ELSE LET y == IF relative THEN RAdd(st.current_y, params[i]) ELSE params[i]
         IN  VerticalTo(LineToPoint(st, st.current_x, y), params, i + 1, relative)

\* the cubic bezier formula at parameter t for one coordinate
Bezier(t, p0, cp1, cp2, p3) ==
    LET t2  == RMul(t, t)
        t3  == RMul(t2, t)
        mt  == RSub(Int2Rat(1), t)
        mt2 == RMul(mt, mt)
        mt3 == RMul(mt2, mt)
        three == Int2Rat(3)
    IN  RAdd(RAdd(RAdd(RMul(mt3, p0),
                       RMul(RMul(RMul(three, mt2), t), cp1)),
                  RMul(RMul(RMul(three, mt), t2), cp2)),
             RMul(t3, p3))

\* for t in [0.25, 0.5, 0.75, 1.0]
BezierSamples == <<Rat(1, 4), Rat(1, 2), Rat(3, 4), Rat(1, 1)>>

\* a run that appends its samples but leaves the cursor where it is
CurveRunNoAdvance(st, params, i, relative) ==
    LET bx == IF relative THEN st.current_x ELSE Int2Rat(0)
        by == IF relative THEN st.current_y ELSE Int2Rat(0)
        sampled == [k \in 1..Len(BezierSamples) |->
                      <<Bezier(BezierSamples[k], st.current_x, RAdd(bx, params[i]),
                               RAdd(bx, params[i + 2]), RAdd(bx, params[i + 4])),
                        Bezier(BezierSamples[k], st.current_y, RAdd(by, params[i + 1]),
                               RAdd(by, params[i + 3]), RAdd(by, params[i + 5]))>>]
    IN  [st EXCEPT !.points = st.points \o sampled]

\* one run of six operands starting at params[i]: four sampled points, then
\* the cursor moves to the end point
CurveRun(st, params, i, relative) ==
    LET bx == IF relative THEN st.current_x ELSE Int2Rat(0)
        by == IF relative THEN st.current_y ELSE Int2Rat(0)
        cp1_x == RAdd(bx, params[i])
        cp1_y == RAdd(by, params[i + 1])
        cp2_x == RAdd(bx, params[i + 2])
        cp2_y == RAdd(by, params[i + 3])
        end_x == RAdd(bx, params[i + 4])
        end_y == RAdd(by, params[i + 5])
        sampled == [k \in 1..Len(BezierSamples) |->
                      <<Bezier(BezierSamples[k], st.current_x, cp1_x, cp2_x, end_x),
                        Bezier(BezierSamples[k], st.current_y, cp1_y, cp2_y, end_y)>>]
    IN  [st EXCEPT !.points = st.points \o sampled,
                   !.current_x = end_x, !.current_y = end_y]

\* 'C' and 'c': for i in range(0, params_len, 6): if i + 5 < params_len
RECURSIVE CurveTo(_, _, _, _)
CurveTo(st, params, i, relative) ==
    IF i > Len(params) THEN st
    ELSE IF i + 5 <= Len(params)
         THEN CurveTo(CurveRun(st, params, i, relative), params, i + 6, relative)
         ELSE CurveTo(st, params, i + 6, relative)

\* ClosePath that moves the cursor but appends no point
ClosePathNoAppend(st) ==
    IF st.points = <<>> THEN st
    ELSE [st EXCEPT !.current_x = st.start_x, !.current_y = st.start_y]

\* ClosePath that appends the sub-path start but leaves the cursor where it is
ClosePathNoReset(st) ==
    IF st.points = <<>> THEN st
    ELSE [st EXCEPT !.points = Append(st.points, <<st.start_x, st.start_y>>)]

\* 'Z' and 'z': if points: append the sub-path start and move the cursor to it
ClosePath(st) ==
    IF st.points = <<>> THEN st
    ELSE [st EXCEPT !.points = Append(st.points, <<st.start_x, st.start_y>>),
                    !.current_x = st.start_x, !.current_y = st.start_y]

\* the if / elif chain of the loop body; other letters fall through
ApplyCommand(st, c) ==
    CASE c.cmd = "M" -> MoveTo(st, c.params, FALSE)
      [] c.cmd = "m" -> MoveTo(st, c.params, TRUE)
      [] c.cmd = "L" -> LineTo(st, c.params, 1, FALSE)
      [] c.cmd = "l" -> LineTo(st, c.params, 1, TRUE)
      [] c.cmd = "H" -> HorizontalTo(st, c.params, 1, FALSE)
      [] c.cmd = "h" -> HorizontalTo(st, c.params, 1, TRUE)
      [] c.cmd = "V" -> VerticalTo(st, c.params, 1, FALSE)
      [] c.cmd = "v" -> VerticalTo(st, c.params, 1, TRUE)
      [] c.cmd = "C" -> CurveTo(st, c.params, 1, FALSE)
      [] c.cmd = "c" -> CurveTo(st, c.params, 1, TRUE)
      [] c.cmd \in {"Z", "z"} -> ClosePath(st)
      [] OTHER -> st

\* for cmd, params in commands: the first exception ends the walk
RECURSIVE WalkCommands(_, _, _)
WalkCommands(st, cmds, i) ==
    IF i > Len(cmds) \/ st.err # "" THEN st
    ELSE WalkCommands(ApplyCommand(st, cmds[i]), cmds, i + 1)

\* the raw point list of a command list, or the exception of the walk
RawPoints(cmds) ==
    LET st == WalkCommands(InitialCursor, cmds, 1)
    IN  IF st.err # "" THEN Raise(st.err) ELSE Ok(st.points)

(* ------------------------------------------------------------------ *)
(* svg_to_points: resampling                                           *)
(* ------------------------------------------------------------------ *)
Max(a, b) == IF a > b THEN a ELSE b

Min(a, b) == IF a < b THEN a ELSE b

\* Python's a // b for b # 0 (rounds toward minus infinity)
PyFloorDiv(a, b) == IF b > 0 THEN a \div b ELSE (-a) \div (-b)

\* Stride counting from the last point backwards
StrideFromEnd(pts, step) ==
    [k \in 1..((Len(pts) + step - 1) \div step) |-> pts[Len(pts) - (k - 1) * step]]

\* Stride that starts at index step: points[step::step]
StrideAfterFirst(pts, step) ==
    [k \in 1..((Len(pts) - 1) \div step) |-> pts[k * step + 1]]

\* points[::step] for step >= 1
Stride(pts, step) ==
    [k \in 1..((Len(pts) + step - 1) \div step) |-> pts[(k - 1) * step + 1]]

\* x1 + (x2 - x1) * t
Lerp(a, b, t) == RAdd(a, RMul(RSub(b, a), t))

\* Interpolate without interpolated.append(points[-1])
InterpolateNoLast(pts, n) ==
    LET steps == n \div Len(pts)
        body  == [k \in 1..((Len(pts) - 1) * steps) |->
                    LET i == (k - 1) \div steps
                        j == (k - 1) % steps
                        t == Rat(j, steps)
                    IN  <<Lerp(pts[i + 1][1], pts[i + 2][1], t),
                          Lerp(pts[i + 1][2], pts[i + 2][2], t)>>]
    IN  SubSeq(body, 1, Min(n, Len(body)))

\* Interpolate with steps = ceil(num_points / len(points))
InterpolateCeilSteps(pts, n) ==
    LET steps == (n + Len(pts) - 1) \div Len(pts)
        body  == [k \in 1..((Len(pts) - 1) * steps) |->
                    LET i == (k - 1) \div steps
                        j == (k - 1) % steps
                        t == Rat(j, steps)
                    IN  <<Lerp(pts[i + 1][1], pts[i + 2][1], t),
                          Lerp(pts[i + 1][2], pts[i + 2][2], t)>>]
        interpolated == Append(body, pts[Len(pts)])
    IN  SubSeq(interpolated, 1, Min(n, Len(interpolated)))

\* Interpolate with both ends of every segment: for j in range(steps + 1)
InterpolateBothEnds(pts, n) ==
    LET steps == n \div Len(pts)
        body  == [k \in 1..((Len(pts) - 1) * (steps + 1)) |->
                    LET i == (k - 1) \div (steps + 1)
                        j == (k - 1) % (steps + 1)
                        t == Rat(j, steps)
                    IN  <<Lerp(pts[i + 1][1], pts[i + 2][1], t),
                          Lerp(pts[i + 1][2], pts[i + 2][2], t)>>]
        interpolated == Append(body, pts[Len(pts)])
    IN  SubSeq(interpolated, 1, Min(n, Len(interpolated)))

\* the interpolation branch: steps points on every segment, then the last point
Interpolate(pts, n) ==
    LET steps == n \div Len(pts)
        body  == [k \in 1..((Len(pts) - 1) * steps) |->
                    LET i == (k - 1) \div steps
                        j == (k - 1) % steps
                        t == Rat(j, steps)
                    IN  <<Lerp(pts[i + 1][1], pts[i + 2][1], t),
                          Lerp(pts[i + 1][2], pts[i + 2][2], t)>>]
        interpolated == Append(body, pts[Len(pts)])
    IN  SubSeq(interpolated, 1, Min(n, Len(interpolated)))

\* Resample with step = len(points) // num_points, not clamped to 1: a zero
\* step is a ValueError of the slice, a negative step walks backwards
ResampleNoClamp(pts, n) ==
    IF Len(pts) > n
    THEN IF n = 0 THEN Raise("ZeroDivisionError")
         ELSE LET step == PyFloorDiv(Len(pts), n)
              IN  IF step = 0 THEN Raise("ValueError")
                  ELSE IF step > 0 THEN Ok(Stride(pts, step))
                  ELSE Ok(StrideFromEnd(pts, -step))
    ELSE IF Len(pts) < n /\ Len(pts) > 1 THEN Ok(Interpolate(pts, n))
    ELSE Ok(pts)

\* lines 121-140: decimate, interpolate or leave alone
Resample(pts, n) ==
    IF Len(pts) > n
    THEN IF n = 0 THEN Raise("ZeroDivisionError")
         ELSE Ok(Stride(pts, Max(1, PyFloorDiv(Len(pts), n))))
    ELSE IF Len(pts) < n /\ Len(pts) > 1 THEN Ok(Interpolate(pts, n))
    ELSE Ok(pts)

\* lines 36-119 after the parse: the raw point list, or the exception so far
WalkOrRaise(cmds) == IF cmds.ok THEN RawPoints(cmds.val) ELSE Raise(cmds.err)

\* lines 121-140 after the walk: the returned list, or the exception so far
ResampleOrRaise(raw, n) == IF raw.ok THEN Resample(raw.val, n) ELSE Raise(raw.err)

\* svg_to_points(path_d, num_points)
svg_to_points(s, n) ==
    ResampleOrRaise(WalkOrRaise(parse_svg_path_commands(s)), n)

(* ------------------------------------------------------------------ *)
(* scale_and_center_points                                             *)
(* ------------------------------------------------------------------ *)
\* meters_per_degree_lat = 111000
MetersPerDegreeLat == 111000

\* math.cos(math.radians(center_lat)) at the latitudes the model uses
CosRadians(lat) ==
    CASE lat = Int2Rat(0)   -> Rat(1, 1)
      [] lat = Int2Rat(60)  -> Rat(1, 2)
      [] lat = Int2Rat(-60) -> Rat(1, 2)
      [] lat = Int2Rat(120) -> Rat(-1, 2)
      [] lat = Int2Rat(180) -> Rat(-1, 1)

\* lines 263-270: the bounding box of a non-empty point list
BoundingBox(pts) ==
    LET xs == [i \in 1..Len(pts) |-> pts[i][1]]
        ys == [i \in 1..Len(pts) |-> pts[i][2]]
    IN  [min_x |-> RMinSeq(xs), max_x |-> RMaxSeq(xs),
         min_y |-> RMinSeq(ys), max_y |-> RMaxSeq(ys),
         width |-> RSub(RMaxSeq(xs), RMinSeq(xs)),
         height |-> RSub(RMaxSeq(ys), RMinSeq(ys))]

\* ProjectPoints normalising from the corner of the bounding box instead of
\* its middle
ProjectPointsUncentered(pts, lat0, lon0, scale) ==
    LET box == BoundingBox(pts)
        max_dim == RMax2(box.width, box.height)
        two == Int2Rat(2)
        norm_x(x) == RMul(RDiv(RSub(x, box.min_x), max_dim), two)
        norm_y(y) == RMul(RDiv(RSub(y, box.min_y), max_dim), two)
        normalized == [i \in 1..Len(pts) |->
                         <<norm_x(pts[i][1]), RNeg(norm_y(pts[i][2]))>>]
        meters_per_degree_lat == Int2Rat(MetersPerDegreeLat)
        meters_per_degree_lon == RMul(Int2Rat(MetersPerDegreeLat), CosRadians(lat0))
        offset_x_meters(n) == RDiv(RMul(n[1], scale), two)
        offset_y_meters(n) == RDiv(RMul(n[2], scale), two)
    IN  IF RIsZero(max_dim) \/ RIsZero(meters_per_degree_lon)
        THEN Raise("ZeroDivisionError")
        ELSE Ok([i \in 1..Len(pts) |->
                   <<RAdd(lat0, RDiv(offset_y_meters(normalized[i]),
                                     meters_per_degree_lat)),
                     RAdd(lon0, RDiv(offset_x_meters(normalized[i]),
                                     meters_per_degree_lon))>>])

\* lines 275-303: normalise to [-1, 1], flip y, scale to metres, convert to
\* degrees; a division by zero raises
ProjectPoints(pts, lat0, lon0, scale) ==
    LET box == BoundingBox(pts)
        max_dim == RMax2(box.width, box.height)
        two == Int2Rat(2)
        norm_x(x) ==
            RMul(RDiv(RSub(RSub(x, box.min_x), RDiv(box.width, two)), max_dim), two)
        norm_y(y) ==
            RMul(RDiv(RSub(RSub(y, box.min_y), RDiv(box.height, two)), max_dim), two)
        \* normalized.append((norm_x, -norm_y))
        normalized == [i \in 1..Len(pts) |->
                         <<norm_x(pts[i][1]), RNeg(norm_y(pts[i][2]))>>]
        meters_per_degree_lat == Int2Rat(MetersPerDegreeLat)
        meters_per_degree_lon == RMul(Int2Rat(MetersPerDegreeLat), CosRadians(lat0))
        offset_x_meters(n) == RDiv(RMul(n[1], scale), two)
        offset_y_meters(n) == RDiv(RMul(n[2], scale), two)
    IN  IF RIsZero(max_dim) \/ RIsZero(meters_per_degree_lon)
        THEN Raise("ZeroDivisionError")
        ELSE Ok([i \in 1..Len(pts) |->
                   <<RAdd(lat0, RDiv(offset_y_meters(normalized[i]),
                                     meters_per_degree_lat)),
                     RAdd(lon0, RDiv(offset_x_meters(normalized[i]),
                                     meters_per_degree_lon))>>])

\* scale_and_center_points without the zero-extent test
scale_and_center_points_nocheck(pts, lat0, lon0, scale) ==
    IF pts = <<>> THEN Ok(<<>>) ELSE ProjectPoints(pts, lat0, lon0, scale)

\* scale_and_center_points refusing a non-positive scale
scale_and_center_points_validating(pts, lat0, lon0, scale) ==
    IF ~ RLt(Int2Rat(0), scale) THEN Raise("ValueError")
    ELSE IF pts = <<>> THEN Ok(<<>>)
    ELSE IF RIsZero(BoundingBox(pts).width) \/ RIsZero(BoundingBox(pts).height)
         THEN Ok(<<<<lat0, lon0>>>>)
         ELSE ProjectPoints(pts, lat0, lon0, scale)

\* scale_and_center_points(points, center_lat, center_lon, scale_meters)
scale_and_center_points(pts, lat0, lon0, scale) ==
    IF pts = <<>> THEN Ok(<<>>)
    ELSE IF RIsZero(BoundingBox(pts).width) \/ RIsZero(BoundingBox(pts).height)
         THEN Ok(<<<<lat0, lon0>>>>)
         ELSE ProjectPoints(pts, lat0, lon0, scale)

(* ------------------------------------------------------------------ *)
(* generate_gpx_file / generate_gpx_from_points                        *)
(* ------------------------------------------------------------------ *)
\* microseconds in a second (datetime and timedelta resolution)
MicrosPerSecond == 1000 * 1000

\* round-half-even of a / b for a >= 0, b > 0
RoundHalfEven(a, b) ==
    LET q == a \div b
        r == a % b
    IN  IF 2 * r < b THEN q
        ELSE IF 2 * r > b THEN q + 1
        ELSE IF q % 2 = 0 THEN q ELSE q + 1

\* timedelta(seconds = num / den), den > 0: rounded to the nearest microsecond
Timedelta(num, den) ==
    LET whole == num \div den
        us    == RoundHalfEven((num % den) * MicrosPerSecond, den)
    IN  [sec |-> whole + us \div MicrosPerSecond, us |-> us % MicrosPerSecond]

\* datetime + timedelta
AddTime(t, td) ==
    LET us == t.us + td.us
    IN  [sec |-> t.sec + td.sec + us \div MicrosPerSecond,
         us  |-> us % MicrosPerSecond]

\* strftime("%Y-%m-%dT%H:%M:%SZ"): the date as a day number, then HH, MM, SS;
\* the microseconds are not printed
StrfTime(t) ==
    [day |-> t.sec \div 86400,
     HH  |-> (t.sec % 86400) \div 3600,
     MM  |-> (t.sec % 3600) \div 60,
     SS  |-> t.sec % 60]

\* generate_gpx_file writing the start point only
generate_gpx_file_single(lat, lon, start, dur) ==
    [encoding |-> "bytes",
     metadata_time |-> StrfTime(start),
     trkpts |-> <<[lat |-> lat, lon |-> lon, point_time |-> start,
                   time |-> StrfTime(start)]>>]

\* generate_gpx_file(lat, lon, start_time, duration, ...): two track points at
\* the same place, the first at start_time and the second at end_time
generate_gpx_file(lat, lon, start, dur) ==
    LET end_time == AddTime(start, Timedelta(dur, 1))
        start_time_str == StrfTime(start)
        end_time_str   == StrfTime(end_time)
    IN  [encoding |-> "bytes",
         metadata_time |-> start_time_str,
         trkpts |-> <<[lat |-> lat, lon |-> lon, point_time |-> start,
                       time |-> start_time_str],
                      [lat |-> lat, lon |-> lon, point_time |-> end_time,
                       time |-> end_time_str]>>]

\* TimePerPoint dividing by the number of intervals instead of the number of points
TimePerPointIntervals(n, dur) == IF n > 1 THEN <<dur, n - 1>> ELSE <<dur, 1>>

\* time_per_point = duration / len(points) if len(points) > 1 else duration,
\* kept as the fraction num / den
TimePerPoint(n, dur) == IF n > 1 THEN <<dur, n>> ELSE <<dur, 1>>

\* PointTime without the factor i
PointTimeNoIndex(start, i, time_per_point) ==
    AddTime(start, Timedelta(time_per_point[1], time_per_point[2]))

\* point_time = start_time + timedelta(seconds=i * time_per_point)
PointTime(start, i, time_per_point) ==
    AddTime(start, Timedelta(i * time_per_point[1], time_per_point[2]))

\* generate_gpx_from_points(points, start_time, duration, ...)
generate_gpx_from_points(pts, start, dur) ==
    IF pts = <<>> THEN generate_gpx_file(Int2Rat(0), Int2Rat(0), start, dur)
    ELSE
    LET time_per_point == TimePerPoint(Len(pts), dur)
    IN  [encoding |-> "str",
         metadata_time |-> StrfTime(start),
         \* enumerate(points) counts from 0
         trkpts |-> [k \in 1..Len(pts) |->
                       [lat |-> pts[k][1], lon |-> pts[k][2],
                        point_time |-> PointTime(start, k - 1, time_per_point),
                        time |-> StrfTime(PointTime(start, k - 1, time_per_point))]]]

(* ------------------------------------------------------------------ *)
(* Inputs                                                              *)
(* ------------------------------------------------------------------ *)
\* command texts of the path descriptions handed to svg_to_points
\* (the last has an odd operand count)
SvgPieces ==
    { <<"M", " ", "0", " ", "0">>,
      <<"m", " ", "2", " ", "1">>,
      <<"L", " ", "2", " ", "0">>,
      <<"L", " ", "2", " ", "2", " ", "0", " ", "2">>,
      <<"l", " ", "1", " ", "1">>,
      <<"h", " ", "2">>,
      <<"C", " ", "0", " ", "2", " ", "2", " ", "2", " ", "2", " ", "0">>,
      <<"Z">>,
      <<"L", " ", "1">> }

\* command texts with well-formed and malformed operand tokens
ParsePieces ==
    { <<"M", " ", "0", " ", "0">>,
      <<"L", " ", "2", ",", "3">>,
      <<"H", " ", "-", "1", ".", "5">>,
      <<"l", " ", "-", ".", "5", " ", "5", ".">>,
      <<"Z">>,
      <<"L", " ", "1", " ", "-", " ", "2">>,
      <<"L", " ", "1", ".", "2", ".", "3", " ", "4">>,
      <<"L", " ", "1", "-", "2", " ", "3">>,
      <<"L", " ", ".", " ", "5">>,
      <<"Q", " ", "1", " ", "1", " ", "2", " ", "2">> }

\* the commands of the test shape "M 50 10 L 90 90 L 10 90 Z", scaled by 1/10
PipelinePieces ==
    { <<"M", " ", "5", " ", "1">>,
      <<"L", " ", "9", " ", "9", " ", "1", " ", "9">>,
      <<"L", " ", "1", " ", "9">>,
      <<"Z">> }

\* the texts s[1] s[2] ... joined by single spaces
RECURSIVE JoinPieces(_)
JoinPieces(s) ==
    IF s = <<>> THEN <<>>
    ELSE IF Len(s) = 1 THEN s[1]
    ELSE s[1] \o <<" ">> \o JoinPieces(Tail(s))

\* every path description made of at most MaxCmds of the given command texts
PathsOf(ps) ==
    { JoinPieces(s) : s \in UNION { [1..k -> ps] : k \in 0..MaxCmds } }

\* how a path description of the walk runs begins: with no Move or with one
WalkHeads == { <<>>, << <<"M", " ", "1", " ", "2">> >> }

\* the command texts that follow: a move, a line, ClosePath, and cubic curves
\* with 6, 12, 7 and 3 operands
WalkPieces ==
    { <<"m", " ", "1", " ", "1">>,
      <<"l", " ", "1", " ", "1">>,
      <<"Z">>,
      <<"c", " ", "1", " ", "0", " ", "1", " ", "1", " ", "0", " ", "1">>,
      <<"c", " ", "1", " ", "0", " ", "1", " ", "1", " ", "0", " ", "1",
             " ", "2", " ", "0", " ", "2", " ", "2", " ", "0", " ", "2">>,
      <<"C", " ", "0", " ", "2", " ", "2", " ", "2", " ", "2", " ", "0", " ", "1">>,
      <<"c", " ", "1", " ", "2", " ", "3">> }

\* a head followed by at most MaxCmds of the command texts
WalkPaths ==
    { JoinPieces(head \o s) :
        head \in WalkHeads, s \in UNION { [1..k -> WalkPieces] : k \in 0..MaxCmds } }

\* target point counts: one negative, zero, and the positive ones up to MaxN
NumPointsInputs == (-1)..MaxN

\* planar points of the lists handed directly to scale_and_center_points
PlanarInputs == { <<Int2Rat(x), Int2Rat(y)>> : x \in {0, 1, 3}, y \in {0, 2} }

\* centre and scale: in range (twice), zero scale, negative scale, latitude out
\* of range, longitude out of range
GeoInputs ==
    { [lat |-> Int2Rat(60),  lon |-> Int2Rat(-3),  scale |-> Int2Rat(100)],
      [lat |-> Int2Rat(0),   lon |-> Int2Rat(0),   scale |-> Int2Rat(100)],
      [lat |-> Int2Rat(60),  lon |-> Int2Rat(-3),  scale |-> Int2Rat(0)],
      [lat |-> Int2Rat(60),  lon |-> Int2Rat(-3),  scale |-> Int2Rat(-100)],
      [lat |-> Int2Rat(120), lon |-> Int2Rat(-3),  scale |-> Int2Rat(100)],
      [lat |-> Int2Rat(60),  lon |-> Int2Rat(200), scale |-> Int2Rat(100)] }

\* centre and scale of the whole-pipeline runs: in range, negative scale, and
\* latitude and longitude both out of range
PipelineGeoInputs ==
    { [lat |-> Int2Rat(60),  lon |-> Int2Rat(-3), scale |-> Int2Rat(100)],
      [lat |-> Int2Rat(60),  lon |-> Int2Rat(-3), scale |-> Int2Rat(-100)],
      [lat |-> Int2Rat(120), lon |-> Int2Rat(200), scale |-> Int2Rat(100)] }

\* start time of the whole-pipeline runs
PipelineStartInputs == { [sec |-> 0, us |-> 0] }

\* start times: midnight sharp, and the last second of a day with a fraction
StartInputs == { [sec |-> 0, us |-> 0], [sec |-> 86399, us |-> 600000] }

\* durations in seconds
DurationInputs == {0, 1, 2, 3, 7, 3600}

\* durations of the whole-pipeline runs
PipelineDurationInputs == {2, 3600}

\* GPS point lists handed directly to generate_gpx_from_points: n points on a line
TrackOf(n) == [i \in 1..n |-> <<Rat(60000 + i, 1000), Rat(-3000 - i, 1000)>>]

NoGeo == [lat |-> Int2Rat(0), lon |-> Int2Rat(0), scale |-> Int2Rat(0)]

NoTime == [sec |-> 0, us |-> 0]

NoGpx == [encoding |-> "none", metadata_time |-> StrfTime(NoTime), trkpts |-> <<>>]

\* no API state: the pipeline runs without the database
NoResponse == [op |-> "none", caller |-> 0, arg |-> 0, status |-> 0, body |-> {}]

NoApp ==
    /\ users = {}
    /\ invitations = {}
    /\ strava_connections = {}
    /\ friendships = {}
    /\ gyms = {}
    /\ grades = {}
    /\ sessions = {}
    /\ ascents = {}
    /\ now = 0
    /\ inflight = <<>>
    /\ response = NoResponse

(* ------------------------------------------------------------------ *)
(* Initial states: the arguments of the call, nothing computed yet     *)
(* ------------------------------------------------------------------ *)
InitPipeline(stage, path, n, pts, gps, geo, start, dur) ==
    /\ pc = stage
    /\ path_d = path
    /\ num_points = n
    /\ commands = NotCalled
    /\ raw_points = NotCalled
    /\ points = pts
    /\ center_lat = geo.lat
    /\ center_lon = geo.lon
    /\ scale_meters = geo.scale
    /\ gps_points = gps
    /\ start_time = start
    /\ duration = dur
    /\ gpx = NoGpx

\* the pipeline on its own
InitWith(stage, path, n, pts, gps, geo, start, dur) ==
    /\ InitPipeline(stage, path, n, pts, gps, geo, start, dur)
    /\ NoApp

\* no pipeline run: the API on its own
NoPipeline == InitPipeline("done", <<>>, 0, NotCalled, NotCalled, NoGeo, NoTime, 0)

\* the whole pipeline on the test shape's commands
Init ==
    \E path \in PathsOf(PipelinePieces), n \in NumPointsInputs,
       geo \in PipelineGeoInputs, start \in PipelineStartInputs,
       dur \in PipelineDurationInputs :
        InitWith("svg", path, n, NotCalled, NotCalled, geo, start, dur)

\* a call of parse_svg_path_commands
InitParse ==
    \E path \in PathsOf(ParsePieces) :
        InitWith("parse", path, 0, NotCalled, NotCalled, NoGeo, NoTime, 0)

\* a call of svg_to_points
InitSvg ==
    \E path \in PathsOf(SvgPieces), n \in NumPointsInputs :
        InitWith("svg", path, n, NotCalled, NotCalled, NoGeo, NoTime, 0)

\* a call of svg_to_points on a path description of the walk runs
InitWalk ==
    \E path \in WalkPaths :
        InitWith("svg", path, MaxN, NotCalled, NotCalled, NoGeo, NoTime, 0)

\* a call of scale_and_center_points
InitScale ==
    \E pts \in UNION { [1..k -> PlanarInputs] : k \in 0..MaxPts }, geo \in GeoInputs :
        InitWith("scale", <<>>, 0, Ok(pts), NotCalled, geo, NoTime, 0)

\* a call of generate_gpx_from_points
InitGpx ==
    \E n \in 0..MaxTrack, start \in StartInputs, dur \in DurationInputs :
        InitWith("gpx", <<>>, 0, NotCalled, Ok(TrackOf(n)), NoGeo, start, dur)

(* ------------------------------------------------------------------ *)
(* Actions: one per function of the pipeline                           *)
(* ------------------------------------------------------------------ *)
\* commands = parse_svg_path_commands(path_d)
ParseSvgPathCommands ==
    /\ pc = "parse"
    /\ commands' = parse_svg_path_commands(path_d)
    /\ pc' = IF commands'.ok THEN "parsed" ELSE "raised"
    /\ UNCHANGED <<path_d, num_points, raw_points, points, center_lat,
                   center_lon, scale_meters, gps_points, start_time,
                   duration, gpx>>
    /\ UNCHANGED app_vars

\* points = svg_to_points(path_d, num_points), step by step: commands and
\* raw_points keep the parsed commands and the point list before resampling
SvgToPoints ==
    /\ pc = "svg"
    /\ commands' = parse_svg_path_commands(path_d)
    /\ raw_points' = WalkOrRaise(commands')
    /\ points' = ResampleOrRaise(raw_points', num_points)
    /\ pc' = IF points'.ok THEN "scale" ELSE "raised"
    /\ UNCHANGED <<path_d, num_points, center_lat, center_lon, scale_meters,
                   gps_points, start_time, duration, gpx>>
    /\ UNCHANGED app_vars

\* gps_points = scale_and_center_points(points, center_lat, center_lon, scale_meters)
ScaleAndCenter ==
    /\ pc = "scale"
    /\ points.ok
    /\ gps_points' = scale_and_center_points(points.val, center_lat, center_lon,
                                             scale_meters)
    /\ pc' = IF gps_points'.ok THEN "gpx" ELSE "raised"
    /\ UNCHANGED <<path_d, num_points, commands, raw_points, points, center_lat,
                   center_lon, scale_meters, start_time, duration, gpx>>
    /\ UNCHANGED app_vars

\* gpx = generate_gpx_from_points(gps_points, start_time, duration, ...)
GenerateGpx ==
    /\ pc = "gpx"
    /\ gps_points.ok
    /\ gpx' = generate_gpx_from_points(gps_points.val, start_time, duration)
    /\ pc' = "done"
    /\ UNCHANGED <<path_d, num_points, commands, raw_points, points, center_lat,
                   center_lon, scale_meters, gps_points, start_time, duration>>
    /\ UNCHANGED app_vars

Next == SvgToPoints \/ ScaleAndCenter \/ GenerateGpx

Spec == Init /\ [][Next]_vars

NextParse == ParseSvgPathCommands

SpecParse == InitParse /\ [][NextParse]_vars

NextSvg == SvgToPoints

SpecSvg == InitSvg /\ [][NextSvg]_vars

NextWalk == SvgToPoints

SpecWalk == InitWalk /\ [][NextWalk]_vars

NextScale == ScaleAndCenter

SpecScale == InitScale /\ [][NextScale]_vars

NextGpx == GenerateGpx

SpecGpx == InitGpx /\ [][NextGpx]_vars

(* ------------------------------------------------------------------ *)
(* Properties                                                          *)
(* ------------------------------------------------------------------ *)
\* svg_to_points has returned a point list from a raw list
Sampled == pc # "svg" /\ raw_points.ok /\ points.ok

RawLen == Len(raw_points.val)

OutLen == Len(points.val)

\* the stride of the decimation branch, for num_points >= 1
StrideOf(l, n) == IF l \div n < 1 THEN 1 ELSE l \div n

\* C1 as stated: for a raw list of at least 2 points and N >= 1, svg_to_points
\* returns exactly N points.
C1_ExactlyN ==
    (pc # "svg" /\ raw_points.ok /\ RawLen >= 2 /\ num_points >= 1)
        => (points.ok /\ OutLen = num_points)

\* C1 amended: for a raw list of L >= 2 points and N >= 1, svg_to_points returns
\* about N points: ceil(L / k) with k = max(1, floor(L / N)) when L > N, which
\* lies between N and 2N - 1; (L - 1) * floor(N / L) + 1 when L < N, which is
\* less than N; N when L = N; in every case more than N / 2 and less than 2N.
C1_ApproximatelyN ==
    (pc # "svg" /\ raw_points.ok /\ RawLen >= 2 /\ num_points >= 1)
        => /\ points.ok
           /\ RawLen > num_points =>
                /\ OutLen * StrideOf(RawLen, num_points) >= RawLen
                /\ (OutLen - 1) * StrideOf(RawLen, num_points) < RawLen
                /\ OutLen >= num_points
                /\ OutLen <= 2 * num_points - 1
           /\ RawLen < num_points =>
                /\ OutLen = (RawLen - 1) * (num_points \div RawLen) + 1
                /\ OutLen < num_points
           /\ RawLen = num_points => OutLen = num_points
           /\ 2 * OutLen > num_points
           /\ OutLen < 2 * num_points

\* C1 witness: an interpolated result that falls short of N
C1_Witness ==
    /\ Sampled
    /\ RawLen >= 2
    /\ RawLen < num_points
    /\ OutLen < num_points

\* generate_gpx_from_points has written a track of n >= 1 given points
Stamped == pc = "done" /\ gps_points.ok /\ gps_points.val # <<>>

TrackLen == Len(gpx.trkpts)

\* t - start as [sec, us] with 0 <= us < 10^6
Elapsed(t, start) ==
    IF t.us >= start.us
    THEN [sec |-> t.sec - start.sec, us |-> t.us - start.us]
    ELSE [sec |-> t.sec - start.sec - 1, us |-> t.us + MicrosPerSecond - start.us]

\* t = start + num / den seconds, to the nearest microsecond (num >= 0, den > 0)
StampedAt(t, start, num, den) ==
    LET e == Elapsed(t, start)
        whole == num \div den
        rest  == num % den
    IN  \/ /\ e.sec = whole
           /\ 2 * Abs(den * e.us - rest * MicrosPerSecond) <= den
        \/ /\ e.sec = whole + 1
           /\ 2 * Abs(den * (e.us + MicrosPerSecond) - rest * MicrosPerSecond) <= den

\* C2 as stated: for n >= 2 points and duration > 0, point i is stamped at
\* start_time + i * duration / (n - 1), and the last point at start_time + duration.
C2_SpansFullDuration ==
    (Stamped /\ TrackLen >= 2 /\ duration > 0)
        => /\ \A k \in 1..TrackLen :
                /\ StampedAt(gpx.trkpts[k].point_time, start_time,
                             (k - 1) * duration, TrackLen - 1)
                /\ gpx.trkpts[k].time = StrfTime(gpx.trkpts[k].point_time)
           /\ gpx.trkpts[TrackLen].point_time = AddTime(start_time, Timedelta(duration, 1))

\* C2 amended: for n >= 2 points and duration > 0, point i is stamped at
\* start_time + i * duration / n: the points are evenly spaced by duration / n and
\* the last point's timestamp is start_time + duration * (n - 1) / n (4 points
\* over 3600 s are stamped at +0, +900, +1800, +2700 s).
C2_SpacedByDurationOverN ==
    (Stamped /\ TrackLen >= 2 /\ duration > 0)
        => /\ TrackLen = Len(gps_points.val)
           /\ \A k \in 1..TrackLen :
                /\ StampedAt(gpx.trkpts[k].point_time, start_time,
                             (k - 1) * duration, TrackLen)
                /\ gpx.trkpts[k].time = StrfTime(gpx.trkpts[k].point_time)
           /\ StampedAt(gpx.trkpts[TrackLen].point_time, start_time,
                        (TrackLen - 1) * duration, TrackLen)

\* C2 witness: 4 points over 3600 s, the last stamped 2700 s after the start
C2_Witness ==
    /\ Stamped
    /\ TrackLen = 4
    /\ duration = 3600
    /\ Elapsed(gpx.trkpts[4].point_time, start_time) = [sec |-> 2700, us |-> 0]

\* the order of two written timestamps (fixed-width fields, so the order of the
\* strings is the order of the field tuples)
TimeStrLt(a, b) ==
    \/ a.day < b.day
    \/ a.day = b.day /\ a.HH < b.HH
    \/ a.day = b.day /\ a.HH = b.HH /\ a.MM < b.MM
    \/ a.day = b.day /\ a.HH = b.HH /\ a.MM = b.MM /\ a.SS < b.SS

\* C3 as stated: for duration > 0 and n >= 2 points the written timestamps are
\* strictly increasing, also when duration is smaller than the number of points.
C3_StrictlyIncreasing ==
    (Stamped /\ TrackLen >= 2 /\ duration > 0)
        => \A k \in 1..(TrackLen - 1) :
              TimeStrLt(gpx.trkpts[k].time, gpx.trkpts[k + 1].time)

\* C3 amended: for duration > 0 and n >= 2 points the written timestamps never
\* decrease, and they are strictly increasing whenever duration >= n (at least
\* one second per point); with duration < n consecutive points can carry the
\* same whole-second timestamp.
C3_IncreasingWhenSecondPerPoint ==
    (Stamped /\ TrackLen >= 2 /\ duration > 0)
        => \A k \in 1..(TrackLen - 1) :
              /\ ~ TimeStrLt(gpx.trkpts[k + 1].time, gpx.trkpts[k].time)
              /\ duration >= TrackLen =>
                    TimeStrLt(gpx.trkpts[k].time, gpx.trkpts[k + 1].time)

\* C3 witness: a track with one second per point or more, strictly increasing
\* across a day boundary
C3_Witness ==
    /\ Stamped
    /\ TrackLen >= 3
    /\ duration >= TrackLen
    /\ start_time.us > 0
    /\ \A k \in 1..(TrackLen - 1) :
          TimeStrLt(gpx.trkpts[k].time, gpx.trkpts[k + 1].time)

RECURSIVE IsSubseq(_, _)
IsSubseq(a, b) ==
    IF a = <<>> THEN TRUE
    ELSE IF b = <<>> THEN FALSE
    ELSE IF Head(a) = Head(b) THEN IsSubseq(Tail(a), Tail(b))
    ELSE IsSubseq(a, Tail(b))

RLe(a, b) == ~ RLt(b, a)

\* point p lies on the closed segment from a to b
OnSegment(p, a, b) ==
    /\ RMul(RSub(p[1], a[1]), RSub(b[2], a[2]))
         = RMul(RSub(p[2], a[2]), RSub(b[1], a[1]))
    /\ RLe(RMin2(a[1], b[1]), p[1]) /\ RLe(p[1], RMax2(a[1], b[1]))
    /\ RLe(RMin2(a[2], b[2]), p[2]) /\ RLe(p[2], RMax2(a[2], b[2]))

\* all points share their x (zero width), their y (zero height)
ZeroWidth(pts) == \A i, j \in 1..Len(pts) : pts[i][1] = pts[j][1]

ZeroHeight(pts) == \A i, j \in 1..Len(pts) : pts[i][2] = pts[j][2]

\* scale_and_center_points has been called on the list in points
ScaleCalled == points.ok /\ pc \in {"gpx", "done", "raised"}

LatInRange == RLe(Int2Rat(-90), center_lat) /\ RLe(center_lat, Int2Rat(90))

LonInRange == RLe(Int2Rat(-180), center_lon) /\ RLe(center_lon, Int2Rat(180))

ScalePositive == RLt(Int2Rat(0), scale_meters)

\* C5: point order is preserved end to end. The decimated output is an
\* order-preserving subsequence of the raw points; the interpolated output
\* contains every raw point in its original order, begins and ends with the first
\* and last raw point, and every point of it lies on the raw segment of its
\* position; otherwise the raw list is returned as it is. In the non-degenerate
\* case scale_and_center_points returns one output per input, the i-th for the
\* i-th: equal inputs and only they give equal outputs, and (for a positive
\* scale and a latitude in range) a point further right has the greater
\* longitude and a point further down the smaller latitude.
C5_OrderPreserved ==
    /\ Sampled =>
         /\ RawLen > num_points =>
              /\ IsSubseq(points.val, raw_points.val)
              /\ RawLen > 0 => points.val[1] = raw_points.val[1]
         /\ (RawLen < num_points /\ RawLen > 1) =>
              /\ IsSubseq(raw_points.val, points.val)
              /\ points.val[1] = raw_points.val[1]
              /\ points.val[OutLen] = raw_points.val[RawLen]
              /\ \A k \in 1..(OutLen - 1) :
                    LET i == (k - 1) \div (num_points \div RawLen)
                    IN  OnSegment(points.val[k], raw_points.val[i + 1],
                                  raw_points.val[i + 2])
         /\ (RawLen <= num_points /\ (RawLen = num_points \/ RawLen <= 1)) =>
              points.val = raw_points.val
    /\ (ScaleCalled /\ points.val # <<>>
          /\ ~ ZeroWidth(points.val) /\ ~ ZeroHeight(points.val)) =>
         /\ gps_points.ok
         /\ Len(gps_points.val) = Len(points.val)
         /\ \A i, j \in 1..Len(points.val) :
              /\ ~ RIsZero(scale_meters) =>
                    ((points.val[i] = points.val[j])
                        <=> (gps_points.val[i] = gps_points.val[j]))
              /\ (ScalePositive /\ LatInRange) =>
                    /\ RLt(points.val[i][1], points.val[j][1])
                         => RLt(gps_points.val[i][2], gps_points.val[j][2])
                    /\ RLt(points.val[i][2], points.val[j][2])
                         => RLt(gps_points.val[j][1], gps_points.val[i][1])

\* C5 witness: a decimated list of several points went through the projection
C5_Witness ==
    /\ pc = "done"
    /\ Sampled
    /\ num_points >= 1
    /\ RawLen > num_points
    /\ OutLen >= 2
    /\ OutLen < RawLen
    /\ ScalePositive
    /\ Len(gps_points.val) = OutLen

\* the path is one closed sub-path: a Move, drawing commands, then Z
ClosedSubPath ==
    /\ commands.ok
    /\ Len(commands.val) >= 2
    /\ commands.val[1].cmd \in {"M", "m"}
    /\ commands.val[Len(commands.val)].cmd \in {"Z", "z"}
    /\ \A i \in 2..(Len(commands.val) - 1) :
          commands.val[i].cmd \in {"L", "l", "H", "h", "V", "v", "C", "c"}

\* C6 as stated: for a single closed sub-path with at least 2 raw points and any
\* N >= 1, the first and the last returned point coincide.
C6_LoopStaysClosed ==
    (pc # "svg" /\ ClosedSubPath /\ raw_points.ok /\ RawLen >= 2 /\ num_points >= 1)
        => (points.ok /\ points.val[1] = points.val[OutLen])

\* C6 amended: for a single closed sub-path with L >= 2 raw points the raw list
\* begins and ends with the sub-path start, and the first returned point is that
\* start; the last returned point coincides with it whenever L <= N (no
\* decimation) or the stride k = max(1, floor(L / N)) divides L - 1; otherwise
\* the decimation ends on raw point k * floor((L - 1) / k), before the closing
\* point, and the loop may be left open.
C6_ClosedUnlessDecimated ==
    (pc # "svg" /\ ClosedSubPath /\ raw_points.ok /\ RawLen >= 2 /\ num_points >= 1)
        => /\ points.ok
           /\ raw_points.val[1] = raw_points.val[RawLen]
           /\ points.val[1] = raw_points.val[1]
           /\ RawLen <= num_points => points.val[OutLen] = points.val[1]
           /\ RawLen > num_points =>
                LET k == StrideOf(RawLen, num_points)
                IN  /\ points.val[OutLen] = raw_points.val[k * ((RawLen - 1) \div k) + 1]
                    /\ (RawLen - 1) % k = 0 => points.val[OutLen] = points.val[1]

\* C6 witness: a closed sub-path, interpolated, that leaves and returns to its start
C6_Witness ==
    /\ pc # "svg"
    /\ ClosedSubPath
    /\ Sampled
    /\ RawLen >= 3
    /\ RawLen < num_points
    /\ OutLen > RawLen
    /\ points.val[2] # points.val[1]
    /\ points.val[OutLen] = points.val[1]

\* C7 as stated: with fewer than 2 raw points svg_to_points returns the raw list
\* unchanged, without raising, for every target_point_count.
C7_UnchangedForEveryN ==
    (pc # "svg" /\ raw_points.ok /\ RawLen < 2) => points = Ok(raw_points.val)

\* C7 amended: with fewer than 2 raw points svg_to_points returns the raw list
\* unchanged, without raising, for every target_point_count except 0 with a
\* single raw point: there len(points) // num_points divides by zero and the
\* call raises ZeroDivisionError.
C7_UnchangedUnlessZero ==
    (pc # "svg" /\ raw_points.ok /\ RawLen < 2)
        => IF RawLen = 1 /\ num_points = 0
           THEN points = Raise("ZeroDivisionError")
           ELSE points = Ok(raw_points.val)

\* C7 witness: the single point of a lone Move came back for a larger target
C7_Witness ==
    /\ pc # "svg"
    /\ raw_points.ok
    /\ RawLen = 1
    /\ num_points > 1
    /\ points = Ok(raw_points.val)

\* C8: when the bounding box of the input has zero width or zero height (a
\* single point included) scale_and_center_points returns exactly one point,
\* (center_lat, center_lon), and raises no division by zero; for an empty input
\* list it returns an empty list.
C8_DegenerateToCenter ==
    ScaleCalled =>
        /\ points.val = <<>> => gps_points = Ok(<<>>)
        /\ (points.val # <<>> /\ (ZeroWidth(points.val) \/ ZeroHeight(points.val)))
              => gps_points = Ok(<<<<center_lat, center_lon>>>>)

\* C8 witness: a vertical line of several points was collapsed to the centre
C8_Witness ==
    /\ ScaleCalled
    /\ Len(points.val) >= 2
    /\ ZeroWidth(points.val)
    /\ ~ ZeroHeight(points.val)
    /\ gps_points = Ok(<<<<center_lat, center_lon>>>>)

\* scale_meters <= 0, latitude outside [-90, 90] or longitude outside [-180, 180]
InvalidGeo == ~ ScalePositive \/ ~ LatInRange \/ ~ LonInRange

\* C9 as stated: a target_point_count <= 0 passed to svg_to_points, and a
\* scale_meters <= 0 or an out-of-range latitude or longitude passed to
\* scale_and_center_points, end in an error and never in a returned point list.
C9_InvalidRejected ==
    /\ (pc # "svg" /\ num_points <= 0) => ~ points.ok
    /\ (ScaleCalled /\ InvalidGeo) => ~ gps_points.ok

\* C9 amended: the pipeline does not validate these parameters. svg_to_points
\* with target_point_count < 0 returns the raw point list unchanged; with
\* target_point_count = 0 it returns the empty list when there is no raw point
\* and otherwise raises ZeroDivisionError in the stride computation;
\* scale_and_center_points with scale_meters <= 0 or an out-of-range latitude or
\* longitude returns a point list as for any other value: empty for an empty
\* input, the centre alone for a degenerate box, else one output per input.
C9_NoValidation ==
    /\ (pc # "svg" /\ raw_points.ok /\ num_points < 0) => points = Ok(raw_points.val)
    /\ (pc # "svg" /\ raw_points.ok /\ num_points = 0) =>
          IF RawLen = 0 THEN points = Ok(<<>>)
                        ELSE points = Raise("ZeroDivisionError")
    /\ (ScaleCalled /\ InvalidGeo) =>
          /\ gps_points.ok
          /\ Len(gps_points.val) =
               IF points.val = <<>> THEN 0
               ELSE IF ZeroWidth(points.val) \/ ZeroHeight(points.val) THEN 1
               ELSE Len(points.val)

\* C9 witness: a negative target count and an invalid centre or scale went
\* through to a written track of several points
C9_Witness ==
    /\ pc = "done"
    /\ num_points < 0
    /\ InvalidGeo
    /\ ~ ScalePositive
    /\ Len(gps_points.val) >= 2
    /\ TrackLen = Len(gps_points.val)

\* the operand tokens of the i-th command of the path description
TokensOf(i) == FindNumberTokens(FindCommands(path_d, 1)[i].params_str, 1)

CommandCount == Len(FindCommands(path_d, 1))

\* the malformed operand tokens the claim names
MalformedTokens ==
    { <<"-">>, <<".">>, <<"1", ".", "2", ".", "3">>, <<"1", "-", "2">> }

HasMalformedToken ==
    \E i \in 1..CommandCount : \E k \in 1..Len(TokensOf(i)) :
        TokensOf(i)[k] \in MalformedTokens

\* C10 as stated: parse_svg_path_commands never fails on a malformed operand
\* token; the token is left out of its command's operands, the well-formed
\* operands around it are kept, and parsing continues.
C10_DropsMalformed ==
    pc # "parse" =>
        /\ commands.ok
        /\ Len(commands.val) = CommandCount
        /\ \A i \in 1..CommandCount :
              Len(commands.val[i].params)
                 = Len(SelectSeq(TokensOf(i), LAMBDA t : t \notin MalformedTokens))

\* C10 amended: parse_svg_path_commands fails with ValueError whenever an
\* operand token is malformed (a lone '-', a lone '.', '1.2.3', '1-2'): float()
\* rejects the token, no command list is returned and the following commands
\* are not parsed. When every token is well formed, every command is returned
\* with all its operands, in order.
C10_RaisesOnMalformed ==
    pc # "parse" =>
        IF HasMalformedToken
        THEN commands = Raise("ValueError")
        ELSE /\ commands.ok
             /\ Len(commands.val) = CommandCount
             /\ \A i \in 1..CommandCount :
                   Len(commands.val[i].params) = Len(TokensOf(i))

\* C10 witness: a malformed token after a well-formed command made the call raise
C10_Witness ==
    /\ pc = "raised"
    /\ CommandCount >= 2
    /\ Len(TokensOf(1)) >= 1
    /\ \A k \in 1..Len(TokensOf(1)) : TokensOf(1)[k] \notin MalformedTokens
    /\ \E k \in 1..Len(TokensOf(2)) : TokensOf(2)[k] \in MalformedTokens
    /\ commands = Raise("ValueError")

RAbs(a) == IF RLt(a, Int2Rat(0)) THEN RNeg(a) ELSE a

\* scale_and_center_points projected a list whose bounding box has an extent
\* on both axes
NonDegenerateCase ==
    /\ ScaleCalled
    /\ points.val # <<>>
    /\ ~ ZeroWidth(points.val)
    /\ ~ ZeroHeight(points.val)

\* the midpoint of the bounding box of the output points, as (lat, lon)
OutputMidpoint ==
    LET box == BoundingBox(gps_points.val)
    IN  <<RDiv(RAdd(box.min_x, box.max_x), Int2Rat(2)),
          RDiv(RAdd(box.min_y, box.max_y), Int2Rat(2))>>

\* the offset in metres of output point i from the centre, north and east
OffsetNorth(i) ==
    RMul(RSub(gps_points.val[i][1], center_lat), Int2Rat(MetersPerDegreeLat))

OffsetEast(i) ==
    RMul(RSub(gps_points.val[i][2], center_lon),
         RMul(Int2Rat(MetersPerDegreeLat), CosRadians(center_lat)))

\* every output point is at most `half` metres from the centre on each axis
OffsetsWithin(half) ==
    \A i \in 1..Len(gps_points.val) :
        /\ RLe(RAbs(OffsetNorth(i)), half)
        /\ RLe(RAbs(OffsetEast(i)), half)

\* C11 as stated: in the non-degenerate case the midpoint of the bounding box
\* of the output points of scale_and_center_points equals (center_lat,
\* center_lon), and every output point's metric offset from the centre is at
\* most scale_meters / 2 in absolute value on each axis.
C11_CentredWithinHalfScale ==
    NonDegenerateCase =>
        /\ gps_points.ok
        /\ OutputMidpoint = <<center_lat, center_lon>>
        /\ OffsetsWithin(RDiv(scale_meters, Int2Rat(2)))

\* C11 amended: in the non-degenerate case the midpoint of the bounding box of
\* the output points equals (center_lat, center_lon), and every output point's
\* metric offset from the centre is at most |scale_meters| / 2 in absolute
\* value on each axis: a negative scale_meters is not refused, it mirrors the
\* shape, so the bound scale_meters / 2 itself holds only for scale_meters >= 0.
C11_CentredWithinHalfAbsScale ==
    NonDegenerateCase =>
        /\ gps_points.ok
        /\ OutputMidpoint = <<center_lat, center_lon>>
        /\ OffsetsWithin(RDiv(RAbs(scale_meters), Int2Rat(2)))
        /\ RLe(Int2Rat(0), scale_meters)
              => OffsetsWithin(RDiv(scale_meters, Int2Rat(2)))

\* C11 witness: a triangle wider than tall was projected with a positive scale,
\* and one of its corners lies exactly scale_meters / 2 east or west of the centre
C11_Witness ==
    /\ NonDegenerateCase
    /\ ScalePositive
    /\ Len(points.val) = 3
    /\ gps_points.ok
    /\ Cardinality({ gps_points.val[i] : i \in 1..3 }) = 3
    /\ \E i \in 1..3 : RAbs(OffsetEast(i)) = RDiv(scale_meters, Int2Rat(2))
    /\ \A i \in 1..3 : RLt(RAbs(OffsetNorth(i)), RDiv(scale_meters, Int2Rat(2)))

(* ================================================================== *)
(* The API over its database                                           *)
(* ================================================================== *)
\* most requests being served at the same time
MaxInflight == 2
\* largest primary key a table hands out
MaxRowId == 3

\* a response: the handler, the authenticated caller, the path or body
\* argument, the HTTP status and what the body carries
Respond(op, caller, arg, code, body) ==
    [op |-> op, caller |-> caller, arg |-> arg, status |-> code, body |-> body]

\* the result of .first() on a query without ORDER BY: any matching row, or
\* None when no row matches
None == [id |-> 0]

First(rows) == IF rows = {} THEN {None} ELSE rows

\* the primary key of the next inserted row: one more than the largest in use
NextId(table) ==
    IF table = {} THEN 1
    ELSE (CHOOSE r \in table : \A q \in table : q.id <= r.id).id + 1

\* NULL in a nullable column
Null == -1

\* a row of gyms; located: latitude and longitude are set and not 0
GymRow(id, located) == [id |-> id, located |-> located]

\* a row of sessions as create_session inserts it: started_at defaults to the
\* clock, ended_at and strava_activity_id (migration 007) are NULL
SessionRow(id, user_id, gym_id, started_at) ==
    [id |-> id, user_id |-> user_id, gym_id |-> gym_id, started_at |-> started_at,
     ended_at |-> Null, strava_activity_id |-> Null]

\* the sequence without its i-th element
Without(seq, i) == [k \in 1..(Len(seq) - 1) |-> IF k < i THEN seq[k] ELSE seq[k + 1]]

\* the registered users of the runs that do not register anybody
UserIds == {1, 2}

UsernameOf(u) == IF u = 1 THEN "ana" ELSE IF u = 2 THEN "ben" ELSE "cat"

EmailOf(u) == IF u = 1 THEN "ana@x.es" ELSE IF u = 2 THEN "ben@x.es" ELSE "cat@x.es"

UserRows(ids) == { [id |-> u, username |-> UsernameOf(u), email |-> EmailOf(u)] : u \in ids }

UserExists(u) == \E row \in users : row.id = u

(* ------------------------------------------------------------------ *)
(* app/routers/social.py, is_friend of app/routers/sessions.py          *)
(* ------------------------------------------------------------------ *)
\* the rows between two users, in either direction
Between(a, b) ==
    { f \in friendships : \/ f.user_id = a /\ f.friend_id = b
                          \/ f.user_id = b /\ f.friend_id = a }

\* is_friend(db, user_id, other_user_id)
is_friend(user_id, other_user_id) ==
    \/ user_id = other_user_id
    \/ \E f \in Between(user_id, other_user_id) : f.status = "accepted"

\* friend_ids of list_friends and get_activity_feed
FriendIds(u) ==
    { IF f.user_id = u THEN f.friend_id ELSE f.user_id :
        f \in { g \in friendships : /\ g.user_id = u \/ g.friend_id = u
                                    /\ g.status = "accepted" } }

\* what a request leaves out
Unset == ""

\* the texts a request in flight can carry, in one fixed order
Texts == <<Unset, "ana", "ben", "cat", "ana@x.es", "ben@x.es", "cat@x.es", "valid",
           "used", "expired", "unknown">>

TextRank(text) == CHOOSE k \in 1..Len(Texts) : Texts[k] = text

\* the requests being served are a multiset, kept as a sequence in one fixed
\* order: the rank of a request in that order
Rank(r) ==
    IF r.op = "send_friend_request"
    THEN r.caller * 1000 + r.friend_id * 100
           + (IF r.existing = None THEN 0
              ELSE 1 + 4 * r.existing.id
                     + (IF r.existing.user_id = r.caller THEN 2 ELSE 0)
                     + (IF r.existing.status = "accepted" THEN 1 ELSE 0))
    ELSE ((r.caller * 16 + TextRank(r.username)) * 16 + TextRank(r.email)) * 16
           + TextRank(r.token)

\* one more request being served
Serving(seq, r) ==
    LET k == Cardinality({ j \in 1..Len(seq) : Rank(seq[j]) < Rank(r) })
    IN  SubSeq(seq, 1, k) \o <<r>> \o SubSeq(seq, k + 1, Len(seq))

\* send_friend_request accepting a request to oneself
SelfRequestAllowed(u, friend_id) == FALSE

\* request.friend_id == current_user.id
SelfRequest(u, friend_id) == friend_id = u

\* send_friend_request, lines 86-142 up to its first write: the checks, the
\* read of `existing` and the answers that need no write; a request that goes
\* on to write (accept the other user's pending request, or insert) is now
\* being served
SendFriendRequestRead(u, friend_id) ==
    /\ Len(inflight) < MaxInflight
    /\ LET answer(code) == Respond("send_friend_request", u, friend_id, code, {})
       IN  IF SelfRequest(u, friend_id)
           THEN response' = answer(400) /\ UNCHANGED inflight
           ELSE IF ~ UserExists(friend_id)
           THEN response' = answer(404) /\ UNCHANGED inflight
           ELSE \E existing \in First(Between(u, friend_id)) :
                  IF existing # None /\ existing.status = "accepted"
                  THEN response' = answer(400) /\ UNCHANGED inflight
                  ELSE IF /\ existing # None
                          /\ existing.status = "pending"
                          /\ existing.user_id # friend_id
                  THEN response' = answer(400) /\ UNCHANGED inflight
                  ELSE /\ inflight' = Serving(inflight,
                              [op |-> "send_friend_request", caller |-> u,
                               friend_id |-> friend_id, existing |-> existing])
                       /\ UNCHANGED response
    /\ UNCHANGED pipeline_vars
    /\ UNCHANGED <<users, invitations, strava_connections, friendships, gyms, grades, sessions,
                   ascents, now>>

\* UniqueConstraint('user_id', 'friend_id'): the row can be inserted
UniqueFriendship(row) ==
    ~ \E f \in friendships : f.user_id = row.user_id /\ f.friend_id = row.friend_id

\* send_friend_request, the write of the i-th request being served: lines
\* 117-138 when it has read a pending request of the other user, lines 144-171
\* when it has read no row
SendFriendRequestCommit(i) ==
    /\ i \in 1..Len(inflight)
    /\ inflight[i].op = "send_friend_request"
    /\ LET r == inflight[i]
           u == r.caller
           existing == r.existing
           answer(code, body) ==
               Respond("send_friend_request", u, r.friend_id, code, body)
           row == [id |-> NextId(friendships), user_id |-> u,
                   friend_id |-> r.friend_id, status |-> "pending"]
       IN  IF existing # None
           THEN \* UPDATE friendships SET status = 'ACCEPTED' WHERE id = ...
                IF \E f \in friendships : f.id = existing.id
                THEN LET old == CHOOSE f \in friendships : f.id = existing.id
                         new == [old EXCEPT !.status = "accepted"]
                     IN  /\ friendships' = (friendships \ {old}) \cup {new}
                         /\ response' = answer(201, {new})
                ELSE /\ response' = answer(500, {})
                     /\ UNCHANGED friendships
           ELSE IF UniqueFriendship(row)
                THEN /\ row.id <= MaxRowId
                     /\ friendships' = friendships \cup {row}
                     /\ response' = answer(201, {row})
                ELSE /\ response' = answer(500, {})
                     /\ UNCHANGED friendships
    /\ inflight' = Without(inflight, i)
    /\ UNCHANGED pipeline_vars
    /\ UNCHANGED <<users, invitations, strava_connections, gyms, grades, sessions, ascents, now>>

\* the pending request `request_id` addressed to user u, or None
PendingRequest(u, request_id) ==
    First({ f \in friendships : /\ f.id = request_id
                                /\ f.friend_id = u
                                /\ f.status = "pending" })

\* accept_friend_request(request_id) by user u
AcceptFriendRequest(u, request_id) ==
    /\ \E friendship \in PendingRequest(u, request_id) :
         IF friendship = None
         THEN /\ response' = Respond("accept_friend_request", u, request_id, 404, {})
              /\ UNCHANGED friendships
         ELSE LET new == [friendship EXCEPT !.status = "accepted"]
              IN  /\ friendships' = (friendships \ {friendship}) \cup {new}
                  /\ response' = Respond("accept_friend_request", u, request_id,
                                         200, {new})
    /\ UNCHANGED pipeline_vars
    /\ UNCHANGED <<users, invitations, strava_connections, gyms, grades, sessions, ascents, now,
                   inflight>>

\* reject_friend_request(request_id) by user u
RejectFriendRequest(u, request_id) ==
    /\ \E friendship \in PendingRequest(u, request_id) :
         IF friendship = None
         THEN /\ response' = Respond("reject_friend_request", u, request_id, 404, {})
              /\ UNCHANGED friendships
         ELSE /\ friendships' = friendships \ {friendship}
              /\ response' = Respond("reject_friend_request", u, request_id, 204, {})
    /\ UNCHANGED pipeline_vars
    /\ UNCHANGED <<users, invitations, strava_connections, gyms, grades, sessions, ascents, now,
                   inflight>>

\* remove_friend(friend_id) by user u
RemoveFriend(u, friend_id) ==
    /\ \E friendship \in
            First({ f \in Between(u, friend_id) : f.status = "accepted" }) :
         IF friendship = None
         THEN /\ response' = Respond("remove_friend", u, friend_id, 404, {})
              /\ UNCHANGED friendships
         ELSE /\ friendships' = friendships \ {friendship}
              /\ response' = Respond("remove_friend", u, friend_id, 204, {})
    /\ UNCHANGED pipeline_vars
    /\ UNCHANGED <<users, invitations, strava_connections, gyms, grades, sessions, ascents, now,
                   inflight>>

\* list_friends() by user u: the body carries the users returned
ListFriends(u) ==
    /\ response' = Respond("list_friends", u, 0, 200,
                           { row \in users : row.id \in FriendIds(u) })
    /\ UNCHANGED pipeline_vars
    /\ UNCHANGED <<users, invitations, strava_connections, friendships, gyms, grades, sessions,
                   ascents, now, inflight>>

\* the session with this id, or None
SessionById(session_id) == First({ row \in sessions : row.id = session_id })

\* session.ascents
SessionAscents(session) == { a \in ascents : a.session_id = session.id }

\* lines 154-170 and 377-393: 404, 403 or what the handler returns
ViewSession(op, u, session_id, session) ==
    IF session = None THEN Respond(op, u, session_id, 404, {})
    ELSE IF session.user_id # u /\ ~ is_friend(u, session.user_id)
    THEN Respond(op, u, session_id, 403, {})
    ELSE Respond(op, u, session_id, 200,
                 IF op = "get_session" THEN {session} ELSE SessionAscents(session))

\* get_session(session_id) by user u: the body carries the session
GetSession(u, session_id) ==
    /\ \E session \in SessionById(session_id) :
         response' = ViewSession("get_session", u, session_id, session)
    /\ UNCHANGED pipeline_vars
    /\ UNCHANGED <<users, invitations, strava_connections, friendships, gyms, grades, sessions,
                   ascents, now, inflight>>

\* list_session_ascents(session_id) by user u: the body carries session.ascents
ListSessionAscents(u, session_id) ==
    /\ \E session \in SessionById(session_id) :
         response' = ViewSession("list_session_ascents", u, session_id, session)
    /\ UNCHANGED pipeline_vars
    /\ UNCHANGED <<users, invitations, strava_connections, friendships, gyms, grades, sessions,
                   ascents, now, inflight>>

\* get_activity_feed() by user u, first page: the sessions of the items
GetActivityFeed(u) ==
    /\ response' = Respond("get_activity_feed", u, 0, 200,
                           { row \in sessions : row.user_id \in FriendIds(u) \cup {u} })
    /\ UNCHANGED pipeline_vars
    /\ UNCHANGED <<users, invitations, strava_connections, friendships, gyms, grades, sessions,
                   ascents, now, inflight>>

\* friend_id of a request: the users, and an id nobody has
FriendIdInputs == UserIds \cup {9}

\* request_id of a request
RowIdInputs == 1..MaxRowId

\* session_id of a request: the sessions, and an id no session has
SessionIdInputs == UserIds \cup {9}

\* two users, each with one session of one ascent at the same gym, no
\* friendship yet
InitSocial ==
    /\ NoPipeline
    /\ users = UserRows(UserIds)
    /\ invitations = {}
    /\ strava_connections = {}
    /\ friendships = {}
    /\ gyms = { GymRow(1, TRUE) }
    /\ grades = { [id |-> 1, gym_id |-> 1, label |-> "Azul", relative_difficulty |-> 4] }
    /\ sessions = { SessionRow(u, u, 1, 0) : u \in UserIds }
    /\ ascents = { [id |-> u, session_id |-> u, grade_id |-> 1, status |-> "send"] :
                     u \in UserIds }
    /\ now = 0
    /\ inflight = <<>>
    /\ response = NoResponse

NextSocial ==
    \/ \E u \in UserIds, friend_id \in FriendIdInputs :
          \/ SendFriendRequestRead(u, friend_id)
          \/ RemoveFriend(u, friend_id)
    \/ \E i \in 1..MaxInflight : SendFriendRequestCommit(i)
    \/ \E u \in UserIds, id \in RowIdInputs :
          \/ AcceptFriendRequest(u, id)
          \/ RejectFriendRequest(u, id)
    \/ \E u \in UserIds, id \in SessionIdInputs :
          \/ GetSession(u, id)
          \/ ListSessionAscents(u, id)
    \/ \E u \in UserIds : ListFriends(u) \/ GetActivityFeed(u)

SpecSocial == InitSocial /\ [][NextSocial]_vars

(* ------------------------------------------------------------------ *)
(* Properties of the social handlers                                   *)
(* ------------------------------------------------------------------ *)
\* two rows join the same two users
SamePair(f, g) == {f.user_id, f.friend_id} = {g.user_id, g.friend_id}

\* the last response is of this handler
Answered(op) == response.op = op

\* C12: after any sequence or interleaving of send_friend_request,
\* accept_friend_request, reject_friend_request and remove_friend calls (two
\* users sending a request to each other at the same time included) at most one
\* Friendship row exists for each unordered pair of users, and a request that
\* finds a pending request of the same sender, or the two users already
\* friends, is answered 400 and creates nothing: a request answered 201 with a
\* new pending row leaves that row alone between the two users, and a request
\* is never answered with a server error.
C12_OneRowPerPair ==
    /\ \A f, g \in friendships : SamePair(f, g) => f = g
    /\ (Answered("send_friend_request") /\ response.status = 201)
          => Between(response.caller, response.arg) = response.body
    /\ Answered("send_friend_request") => response.status # 500

\* C13: send_friend_request with friend_id equal to the caller's own id is
\* answered 400 and creates no row, so that in every reachable state no
\* Friendship row has user_id = friend_id.
C13_NoSelfFriendship ==
    /\ \A f \in friendships : f.user_id # f.friend_id
    /\ (Answered("send_friend_request") /\ response.arg = response.caller)
          => (response.status = 400 /\ response.body = {})

\* C13 witness: a user who already has a friend asked to befriend themself and
\* was answered 400
C13_Witness ==
    /\ Answered("send_friend_request")
    /\ response.arg = response.caller
    /\ response.status = 400
    /\ \E f \in friendships : f.status = "accepted"
    /\ \A f \in friendships : f.user_id # f.friend_id

\* the owner of the session a response is about
OwnerOf(session_id) == (CHOOSE row \in sessions : row.id = session_id).user_id

\* an accepted row joins the two users, in either direction
AcceptedBetween(a, b) == \E f \in Between(a, b) : f.status = "accepted"

\* what the last response shows of C14: data only for the owner or an accepted
\* friend, 403 for anybody else, and a feed of own and accepted friends' sessions
ViewsGuarded ==
    /\ (Answered("get_session") \/ Answered("list_session_ascents"))
          => /\ response.status = 200
                  => \/ OwnerOf(response.arg) = response.caller
                     \/ AcceptedBetween(response.caller, OwnerOf(response.arg))
             /\ ( /\ \E row \in sessions : row.id = response.arg
                  /\ OwnerOf(response.arg) # response.caller
                  /\ ~ AcceptedBetween(response.caller, OwnerOf(response.arg)) )
                  => response.status = 403
    /\ Answered("get_activity_feed")
          => \A row \in response.body :
                \/ row.user_id = response.caller
                \/ AcceptedBetween(response.caller, row.user_id)

\* is_friend and the friend ids of list_friends and the feed, over a given
\* state of the friendships table
FriendsIn(table, a, b) ==
    \/ a = b
    \/ \E f \in table : /\ {f.user_id, f.friend_id} = {a, b}
                        /\ f.status = "accepted"

FriendIdsIn(table, u) ==
    { v \in UserIds \ {u} : FriendsIn(table, u, v) }

\* the other user of a row, seen from user u
OtherOf(f, u) == IF f.user_id = u THEN f.friend_id ELSE f.user_id

\* C14: get_session and list_session_ascents return a session's data only if,
\* at the time of the call, the caller owns the session or an ACCEPTED
\* friendship joins caller and owner; while the friendship is only PENDING the
\* call is answered 403, and once reject_friend_request or remove_friend has
\* taken a row away the two users of that row are no longer friends, so that
\* the call is answered 403 again; the feed contains only sessions of the caller
\* and of currently accepted friends.
C14_OnlyOwnerOrAcceptedFriend ==
    [][ /\ ViewsGuarded'
        /\ ( /\ response'.op \in {"reject_friend_request", "remove_friend"}
             /\ response'.status = 204 )
              => \A f \in friendships \ friendships' :
                    ~ FriendsIn(friendships', response'.caller,
                                OtherOf(f, response'.caller)) ]_vars

\* user b has a pending request to user a
PendingFrom(b, a) ==
    \E f \in friendships : f.user_id = b /\ f.friend_id = a /\ f.status = "pending"

\* C20: if user B has a PENDING request to user A when A calls
\* send_friend_request targeting B, the call finds that request and creates no
\* row: the row of B's request becomes ACCEPTED and keeps B as user_id and A as
\* friend_id, and the two users are friends for is_friend, list_friends and the
\* feed.
C20_PendingRequestAccepted ==
    [][ /\ \A a \in UserIds, b \in UserIds :
             ( /\ PendingFrom(b, a)
               /\ friendships' = friendships
               /\ \/ Len(inflight') = Len(inflight) + 1
                  \/ response' = Respond("send_friend_request", a, b,
                                         response'.status, {})
               /\ SendFriendRequestRead(a, b) )
                => /\ Len(inflight') = Len(inflight) + 1
                   /\ \E i \in 1..Len(inflight') :
                         /\ inflight'[i].caller = a
                         /\ inflight'[i].friend_id = b
                         /\ inflight'[i].existing # None
        /\ \A i \in 1..Len(inflight) :
             ( /\ inflight[i].existing # None
               /\ inflight' = Without(inflight, i)
               /\ SendFriendRequestCommit(i) )
               => LET a == inflight[i].caller
                      b == inflight[i].friend_id
                      accepted == [inflight[i].existing EXCEPT !.status = "accepted"]
                  IN  /\ Cardinality(friendships') = Cardinality(friendships)
                      /\ accepted \in friendships'
                      /\ FriendsIn(friendships', a, b)
                      /\ b \in FriendIdsIn(friendships', a)
                      /\ a \in FriendIdsIn(friendships', b) ]_vars

(* ------------------------------------------------------------------ *)
(* Properties of the resampling                                         *)
(* ------------------------------------------------------------------ *)
\* the call walked L raw points with L > N >= 1
Decimating == pc # "svg" /\ raw_points.ok /\ num_points >= 1 /\ RawLen > num_points

\* the call walked L raw points with 2 <= L < N
Interpolating == pc # "svg" /\ raw_points.ok /\ RawLen >= 2 /\ RawLen < num_points

\* C25: when the raw list has L > N points (N >= 1), svg_to_points returns
\* exactly the raw points at indices 0, k, 2k, ... with k = max(1, floor(L / N));
\* the result contains the first raw point and its length ceil(L / k) is at
\* least N and at most 2N - 1.
C25_EveryKthPoint ==
    Decimating =>
        LET k == StrideOf(RawLen, num_points)
        IN  /\ points.ok
            /\ OutLen = (RawLen + k - 1) \div k
            /\ \A i \in 1..OutLen : points.val[i] = raw_points.val[(i - 1) * k + 1]
            /\ points.val[1] = raw_points.val[1]
            /\ OutLen >= num_points
            /\ OutLen <= 2 * num_points - 1

\* a decimation with a stride of at least 2 that returned 2N - 1 points
C25_Witness ==
    /\ Decimating
    /\ points.ok
    /\ num_points >= 2
    /\ StrideOf(RawLen, num_points) >= 2
    /\ OutLen = 2 * num_points - 1
    /\ points.val[2] # points.val[1]

\* C26: when the raw list has L points with 2 <= L < N, the last point
\* svg_to_points returns is the last raw point, for every N.
C26_LastPointKept ==
    Interpolating => points.ok /\ points.val[OutLen] = raw_points.val[RawLen]

\* an interpolation whose N is not a multiple of L, ending away from its start
C26_Witness ==
    /\ Interpolating
    /\ points.ok
    /\ num_points % RawLen # 0
    /\ OutLen > RawLen
    /\ points.val[OutLen] # points.val[1]

\* C27: when the raw list has L points with 2 <= L < N, svg_to_points returns
\* exactly (L - 1) * floor(N / L) + 1 points, and this number is strictly less
\* than N.
C27_InterpolatedLength ==
    Interpolating =>
        /\ points.ok
        /\ OutLen = (RawLen - 1) * (num_points \div RawLen) + 1
        /\ OutLen < num_points

\* an interpolation of at least 3 raw points, 2 steps a segment, N - 1 returned
C27_Witness ==
    /\ Interpolating
    /\ points.ok
    /\ RawLen >= 3
    /\ num_points \div RawLen >= 2
    /\ OutLen = num_points - 1

(* ------------------------------------------------------------------ *)
(* Properties of the walk over the commands                            *)
(* ------------------------------------------------------------------ *)
\* the call has parsed its path description
Walked == pc # "svg" /\ commands.ok

\* the cursor after the first k commands
CursorAfter(k) == WalkCommands(InitialCursor, SubSeq(commands.val, 1, k), 1)

IsMove(c) == c.cmd \in {"M", "m"}

IsClosePath(c) == c.cmd \in {"Z", "z"}

\* the destination of the k-th command, a Move: its operands, counted from
\* the position before it when the Move is relative
MoveDestination(k) ==
    LET c == commands.val[k]
        before == CursorAfter(k - 1)
    IN  IF c.cmd = "M" THEN <<c.params[1], c.params[2]>>
        ELSE <<RAdd(before.current_x, c.params[1]), RAdd(before.current_y, c.params[2])>>

\* the destination of the last Move among the first k commands, (0, 0) if none
LastMoveDestination(k) ==
    LET moves == { j \in 1..k : IsMove(commands.val[j]) }
    IN  IF moves = {} THEN <<Int2Rat(0), Int2Rat(0)>>
        ELSE MoveDestination(CHOOSE j \in moves : \A i \in moves : i <= j)

\* C23: while svg_to_points walks the commands, the sub-path start equals the
\* destination of the most recent Move (or (0,0) if there was none), right
\* after a ClosePath the current position equals the sub-path start, and a
\* relative line command after a ClosePath is offset from the sub-path start.
C23_SubPathStart ==
    Walked =>
      \A k \in 1..Len(commands.val) :
         LET st == CursorAfter(k)
             c  == commands.val[k]
         IN  st.err = "" =>
               /\ <<st.start_x, st.start_y>> = LastMoveDestination(k)
               /\ IsClosePath(c) =>
                     <<st.current_x, st.current_y>> = <<st.start_x, st.start_y>>
               /\ /\ IsClosePath(c)
                  /\ k < Len(commands.val)
                  /\ commands.val[k + 1].cmd = "l"
                  /\ Len(commands.val[k + 1].params) >= 2
                  => CursorAfter(k + 1).points[Len(st.points) + 1] =
                        <<RAdd(st.start_x, commands.val[k + 1].params[1]),
                          RAdd(st.start_y, commands.val[k + 1].params[2])>>

\* a ClosePath met the cursor away from the sub-path start of a Move, and a
\* relative line follows it
C23_Witness ==
    /\ Walked
    /\ raw_points.ok
    /\ \E k \in 2..(Len(commands.val) - 1) :
          /\ IsClosePath(commands.val[k])
          /\ commands.val[k + 1].cmd = "l"
          /\ \E j \in 1..(k - 1) : IsMove(commands.val[j])
          /\ <<CursorAfter(k - 1).current_x, CursorAfter(k - 1).current_y>> #
                <<CursorAfter(k - 1).start_x, CursorAfter(k - 1).start_y>>

IsCurve(c) == c.cmd \in {"C", "c"}

\* the end point of the r-th complete run of the cubic curve c walked from the
\* cursor before: operands 5 and 6 of the run, counted from the end point of
\* the run before when the command is relative; run 0 ends where the cursor was
RECURSIVE RunEnd(_, _, _)
RunEnd(c, before, r) ==
    IF r = 0 THEN <<before.current_x, before.current_y>>
    ELSE IF c.cmd = "C" THEN <<c.params[6 * r - 1], c.params[6 * r]>>
    ELSE LET prev == RunEnd(c, before, r - 1)
         IN  <<RAdd(prev[1], c.params[6 * r - 1]), RAdd(prev[2], c.params[6 * r])>>

\* C24: a cubic-curve command with n operands appends exactly 4 * floor(n / 6)
\* raw points; the last point of each complete run is the run's end point
\* (offset from the previous run's end point in a relative command), the
\* current position ends at the last complete run's end point, and a trailing
\* incomplete run appends nothing and leaves the current position unchanged.
C24_CurveRuns ==
    Walked =>
      \A k \in 1..Len(commands.val) :
         LET c == commands.val[k]
             before == CursorAfter(k - 1)
             after == ApplyCommand(before, c)
             runs == Len(c.params) \div 6
             base == Len(before.points)
         IN  IsCurve(c) /\ before.err = "" =>
               /\ after.err = ""
               /\ Len(after.points) = base + 4 * runs
               /\ SubSeq(after.points, 1, base) = before.points
               /\ \A r \in 1..runs : after.points[base + 4 * r] = RunEnd(c, before, r)
               /\ <<after.current_x, after.current_y>> = RunEnd(c, before, runs)

\* a relative curve with two complete runs was walked from a cursor away from
\* the origin, and a curve with a trailing incomplete run was walked too
C24_Witness ==
    /\ Walked
    /\ raw_points.ok
    /\ \E k \in 1..Len(commands.val) :
          /\ commands.val[k].cmd = "c"
          /\ Len(commands.val[k].params) = 12
          /\ CursorAfter(k - 1).current_x # Int2Rat(0)
    /\ \E k \in 1..Len(commands.val) :
          /\ IsCurve(commands.val[k])
          /\ Len(commands.val[k].params) % 6 # 0

(* ------------------------------------------------------------------ *)
(* The climbing log: gyms, grades, sessions and ascents                 *)
(* (routers/sessions.py, routers/ascents.py, routers/grades.py,         *)
(* routers/gyms.py). One request is served at a time here; a handler    *)
(* is one step.                                                         *)
(* ------------------------------------------------------------------ *)
\* largest primary key of a grade, a session or an ascent in the log runs
MaxLogRows == 2

\* what every log handler leaves alone
LogUnchanged ==
    /\ UNCHANGED pipeline_vars
    /\ UNCHANGED <<users, invitations, strava_connections, friendships, now, inflight>>

GymById(gym_id) == First({ row \in gyms : row.id = gym_id })

GradeById(grade_id) == First({ row \in grades : row.id = grade_id })

\* the session with this id, whoever owns it
AnySession(u, session_id) == First({ row \in sessions : row.id = session_id })

\* the session with this id if it belongs to user u, or None
OwnSession(u, session_id) ==
    First({ row \in sessions : row.id = session_id /\ row.user_id = u })

\* the ascent with this id if its session belongs to user u (the join), or None
OwnAscent(u, ascent_id) ==
    First({ row \in ascents :
              /\ row.id = ascent_id
              /\ \E s \in sessions : s.id = row.session_id /\ s.user_id = u })

\* ascent.session of a loaded ascent
SessionOf(ascent) == First({ s \in sessions : s.id = ascent.session_id })

\* the check of add_ascent and update_ascent dropped
GradeOfAnyGym(grade, session) == FALSE

\* grade.gym_id != session.gym_id
GradeOfOtherGym(grade, session) == grade.gym_id # session.gym_id

\* a delete that removes only the row itself
NoCascade(table, parents, key) == {}

\* cascade="all, delete-orphan": the rows of table whose parent is deleted
Cascade(table, parents, key) ==
    { row \in table : \E parent \in parents : row[key] = parent.id }

\* create_session(session_data) by user u
CreateSession(u, gym_id) ==
    /\ \E gym \in GymById(gym_id) :
         IF gym = None
         THEN /\ response' = Respond("create_session", u, gym_id, 404, {})
              /\ UNCHANGED sessions
         ELSE /\ NextId(sessions) <= MaxLogRows
              /\ sessions' = sessions \cup
                    { SessionRow(NextId(sessions), u, gym_id, now) }
              /\ response' = Respond("create_session", u, gym_id, 201, {})
    /\ UNCHANGED <<gyms, grades, ascents>>
    /\ LogUnchanged

\* update_session(session_id, session_data) by user u; update_data holds the
\* fields of SessionUpdate that the request sets (gym_id, ended_at)
UpdateSession(u, session_id, update_data) ==
    /\ \E session \in OwnSession(u, session_id) :
         IF session = None
         THEN /\ response' = Respond("update_session", u, session_id, 404, {})
              /\ UNCHANGED sessions
         ELSE /\ sessions' = (sessions \ {session}) \cup
                    { [field \in DOMAIN session |->
                         IF field \in DOMAIN update_data THEN update_data[field]
                         ELSE session[field]] }
              /\ response' = Respond("update_session", u, session_id, 200, {})
    /\ UNCHANGED <<gyms, grades, ascents>>
    /\ LogUnchanged

\* end_session(session_id) by user u
EndSession(u, session_id) ==
    /\ \E session \in OwnSession(u, session_id) :
         IF session = None
         THEN /\ response' = Respond("end_session", u, session_id, 404, {})
              /\ UNCHANGED sessions
         ELSE /\ sessions' = (sessions \ {session}) \cup
                    { [session EXCEPT !.ended_at = now] }
              /\ response' = Respond("end_session", u, session_id, 200, {})
    /\ UNCHANGED <<gyms, grades, ascents>>
    /\ LogUnchanged

\* reopen_session(session_id) by user u
ReopenSession(u, session_id) ==
    /\ \E session \in OwnSession(u, session_id) :
         IF session = None
         THEN /\ response' = Respond("reopen_session", u, session_id, 404, {})
              /\ UNCHANGED sessions
         ELSE /\ sessions' = (sessions \ {session}) \cup
                    { [session EXCEPT !.ended_at = Null] }
              /\ response' = Respond("reopen_session", u, session_id, 200, {})
    /\ UNCHANGED <<gyms, grades, ascents>>
    /\ LogUnchanged

\* delete_session(session_id) by user u
DeleteSession(u, session_id) ==
    /\ \E session \in OwnSession(u, session_id) :
         IF session = None
         THEN /\ response' = Respond("delete_session", u, session_id, 404, {})
              /\ UNCHANGED <<sessions, ascents>>
         ELSE /\ sessions' = sessions \ {session}
              /\ ascents' = ascents \
                    Cascade(ascents, {session}, "session_id")
              /\ response' = Respond("delete_session", u, session_id, 204, {})
    /\ UNCHANGED <<gyms, grades>>
    /\ LogUnchanged

\* add_ascent(session_id, ascent_data) by user u
AddAscent(u, session_id, grade_id, status) ==
    /\ LET answer(code) == Respond("add_ascent", u, session_id, code, {})
       IN  \E session \in OwnSession(u, session_id), grade \in GradeById(grade_id) :
             IF session = None \/ grade = None
             THEN response' = answer(404) /\ UNCHANGED ascents
             ELSE IF GradeOfOtherGym(grade, session)
             THEN response' = answer(400) /\ UNCHANGED ascents
             ELSE /\ NextId(ascents) <= MaxLogRows
                  /\ ascents' = ascents \cup
                        { [id |-> NextId(ascents), session_id |-> session_id,
                           grade_id |-> grade_id, status |-> status] }
                  /\ response' = answer(201)
    /\ UNCHANGED <<gyms, grades, sessions>>
    /\ LogUnchanged

\* update_ascent(ascent_id, ascent_data) by user u, ascent_data carrying
\* grade_id: the grade is checked only when grade_id is truthy
UpdateAscent(u, ascent_id, grade_id) ==
    /\ LET answer(code) == Respond("update_ascent", u, ascent_id, code, {})
       IN  \E ascent \in OwnAscent(u, ascent_id), grade \in GradeById(grade_id) :
             IF ascent = None
             THEN response' = answer(404) /\ UNCHANGED ascents
             ELSE IF grade_id # 0 /\ grade = None
             THEN response' = answer(404) /\ UNCHANGED ascents
             ELSE IF grade_id # 0 /\ \E session \in SessionOf(ascent) :
                                        GradeOfOtherGym(grade, session)
             THEN response' = answer(400) /\ UNCHANGED ascents
             ELSE /\ ascents' = (ascents \ {ascent}) \cup
                        { [ascent EXCEPT !.grade_id = grade_id] }
                  /\ response' = answer(200)
    /\ UNCHANGED <<gyms, grades, sessions>>
    /\ LogUnchanged

\* delete_ascent(ascent_id) by user u
DeleteAscent(u, ascent_id) ==
    /\ \E ascent \in OwnAscent(u, ascent_id) :
         IF ascent = None
         THEN /\ response' = Respond("delete_ascent", u, ascent_id, 404, {})
              /\ UNCHANGED ascents
         ELSE /\ ascents' = ascents \ {ascent}
              /\ response' = Respond("delete_ascent", u, ascent_id, 204, {})
    /\ UNCHANGED <<gyms, grades, sessions>>
    /\ LogUnchanged

\* create_grade(grade_data) by user u
CreateGrade(u, gym_id, label, relative_difficulty) ==
    /\ \E gym \in GymById(gym_id) :
         IF gym = None
         THEN /\ response' = Respond("create_grade", u, gym_id, 404, {})
              /\ UNCHANGED grades
         ELSE /\ NextId(grades) <= MaxLogRows
              /\ grades' = grades \cup
                    { [id |-> NextId(grades), gym_id |-> gym_id, label |-> label,
                       relative_difficulty |-> relative_difficulty] }
              /\ response' = Respond("create_grade", u, gym_id, 201, {})
    /\ UNCHANGED <<gyms, sessions, ascents>>
    /\ LogUnchanged

\* update_grade(grade_id, grade_data) by user u, grade_data carrying
\* relative_difficulty (GradeUpdate has no gym_id)
UpdateGrade(u, grade_id, relative_difficulty) ==
    /\ \E grade \in GradeById(grade_id) :
         IF grade = None
         THEN /\ response' = Respond("update_grade", u, grade_id, 404, {})
              /\ UNCHANGED grades
         ELSE /\ grades' = (grades \ {grade}) \cup
                    { [grade EXCEPT !.relative_difficulty = relative_difficulty] }
              /\ response' = Respond("update_grade", u, grade_id, 200, {})
    /\ UNCHANGED <<gyms, sessions, ascents>>
    /\ LogUnchanged

\* delete_grade(grade_id) by user u
DeleteGrade(u, grade_id) ==
    /\ \E grade \in GradeById(grade_id) :
         IF grade = None
         THEN /\ response' = Respond("delete_grade", u, grade_id, 404, {})
              /\ UNCHANGED <<grades, ascents>>
         ELSE /\ grades' = grades \ {grade}
              /\ ascents' = ascents \
                    Cascade(ascents, {grade}, "grade_id")
              /\ response' = Respond("delete_grade", u, grade_id, 204, {})
    /\ UNCHANGED <<gyms, sessions>>
    /\ LogUnchanged

\* delete_gym(gym_id) by user u: the gym's grades and sessions go with it,
\* and their ascents with them
DeleteGym(u, gym_id) ==
    /\ \E gym \in GymById(gym_id) :
         IF gym = None
         THEN /\ response' = Respond("delete_gym", u, gym_id, 404, {})
              /\ UNCHANGED <<gyms, grades, sessions, ascents>>
         ELSE /\ gyms' = gyms \ {gym}
              /\ grades' = grades \ Cascade(grades, {gym}, "gym_id")
              /\ sessions' = sessions \ Cascade(sessions, {gym}, "gym_id")
              /\ ascents' = (ascents \
                    Cascade(ascents, Cascade(grades, {gym}, "gym_id"),
                            "grade_id")) \
                    Cascade(ascents, Cascade(sessions, {gym}, "gym_id"),
                            "session_id")
              /\ response' = Respond("delete_gym", u, gym_id, 204, {})
    /\ LogUnchanged

\* gym_id of a request: the gyms, and an id no gym has
GymIdInputs == {1, 2, 9}

\* grade_id of a request: the ids a grade can have, and 0
GradeIdInputs == 0..MaxLogRows

\* session_id, ascent_id of a request
LogIdInputs == 1..MaxLogRows

\* relative_difficulty of a request
DifficultyInputs == {0, 4, 6}

\* two gyms, a grade at gym 1 and a session of user 1 there
InitLog ==
    /\ NoPipeline
    /\ users = UserRows(UserIds)
    /\ invitations = {}
    /\ strava_connections = {}
    /\ friendships = {}
    /\ gyms = { GymRow(1, TRUE), GymRow(2, FALSE) }
    /\ grades = { [id |-> 1, gym_id |-> 1, label |-> "Azul", relative_difficulty |-> 4] }
    /\ sessions = { SessionRow(1, 1, 1, 0) }
    /\ ascents = {}
    /\ now = 0
    /\ inflight = <<>>
    /\ response = NoResponse

\* the operations that attach a grade, a session and a gym to each other
NextLog ==
    \/ \E u \in UserIds, gym_id \in GymIdInputs :
          \/ CreateSession(u, gym_id)
          \/ CreateGrade(u, gym_id, "Rojo", 0)
          \/ \E id \in LogIdInputs : UpdateSession(u, id, [gym_id |-> gym_id])
    \/ \E u \in UserIds, id \in LogIdInputs :
          \/ UpdateGrade(u, id, 4)
          \/ \E grade_id \in GradeIdInputs :
                \/ AddAscent(u, id, grade_id, "send")
                \/ UpdateAscent(u, id, grade_id)

SpecLog == InitLog /\ [][NextLog]_vars

\* the owner of the session with this id in the runs that start from a
\* filled log: the users take turns
OwnerAtStart(session_id) == IF session_id % 2 = 1 THEN 1 ELSE 2

\* a filled log: two gyms with one grade each, sessions at either gym, and
\* ascents in any session on any grade (update_session can move a session
\* away from the gym of its ascents' grades)
InitDelete ==
    /\ NoPipeline
    /\ users = UserRows(UserIds)
    /\ invitations = {}
    /\ strava_connections = {}
    /\ friendships = {}
    /\ gyms = { GymRow(1, TRUE), GymRow(2, FALSE) }
    /\ grades = { [id |-> g, gym_id |-> g, label |-> "Azul", relative_difficulty |-> 4] :
                    g \in {1, 2} }
    /\ \E at \in [LogIdInputs -> {1, 2}] :
          sessions = { SessionRow(s, OwnerAtStart(s), at[s], 0) :
                         s \in LogIdInputs }
    /\ \E of \in [LogIdInputs -> LogIdInputs], on \in [LogIdInputs -> {1, 2}] :
          ascents = { [id |-> a, session_id |-> of[a], grade_id |-> on[a],
                       status |-> "send"] : a \in LogIdInputs }
    /\ now = 0
    /\ inflight = <<>>
    /\ response = NoResponse

\* the operations that delete
NextDelete ==
    \/ \E u \in UserIds, gym_id \in GymIdInputs : DeleteGym(u, gym_id)
    \/ \E u \in UserIds, id \in LogIdInputs :
          \/ DeleteSession(u, id)
          \/ DeleteAscent(u, id)
          \/ DeleteGrade(u, id)

SpecDelete == InitDelete /\ [][NextDelete]_vars

\* users 1 and 2 are accepted friends; user 1 has a session with an ascent at
\* gym 1, which has two grades
InitOwner ==
    /\ NoPipeline
    /\ users = UserRows(UserIds)
    /\ invitations = {}
    /\ strava_connections = {}
    /\ friendships = { [id |-> 1, user_id |-> 1, friend_id |-> 2, status |-> "accepted"] }
    /\ gyms = { GymRow(1, TRUE), GymRow(2, FALSE) }
    /\ grades = { [id |-> 1, gym_id |-> 1, label |-> "Azul", relative_difficulty |-> 4],
                  [id |-> 2, gym_id |-> 1, label |-> "Rojo", relative_difficulty |-> 6] }
    /\ sessions = { SessionRow(1, 1, 1, 0) }
    /\ ascents = { [id |-> 1, session_id |-> 1, grade_id |-> 1, status |-> "send"] }
    /\ now = 0
    /\ inflight = <<>>
    /\ response = NoResponse

\* the owner and the friend call every handler that writes a session or an
\* ascent, and read the session
NextOwner ==
    \E u \in UserIds, id \in LogIdInputs :
       \/ \E gym_id \in {1, 2} : UpdateSession(u, id, [gym_id |-> gym_id])
       \/ EndSession(u, id)
       \/ ReopenSession(u, id)
       \/ DeleteSession(u, id)
       \/ AddAscent(u, id, 1, "flash")
       \/ \E grade_id \in {1, 2} : UpdateAscent(u, id, grade_id)
       \/ DeleteAscent(u, id)
       \/ GetSession(u, id)

SpecOwner == InitOwner /\ [][NextOwner]_vars

(* ------------------------------------------------------------------ *)
(* Strava (routers/strava.py): the stored OAuth tokens and the upload   *)
(* of a session. The clock counts seconds; tokens are numbered in the   *)
(* order Strava issues them.                                            *)
(* ------------------------------------------------------------------ *)
\* the clock advances at most this many times
MaxTicks == 2

\* largest number of a token Strava issues
MaxTokens == 3

\* "Refresh 5 min before expiry": the buffer in seconds
RefreshBuffer == 300

\* "Default 1 hour if no end time", in seconds
DefaultDuration == 3600

\* the clock moves on by five minutes
Tick ==
    /\ now < MaxTicks * RefreshBuffer
    /\ now' = now + RefreshBuffer
    /\ UNCHANGED pipeline_vars
    /\ UNCHANGED <<users, invitations, strava_connections, friendships, gyms, grades,
                   sessions, ascents, inflight, response>>

\* how the POST to oauth/token ends: with new tokens, with an HTTP error,
\* never sent because the client id or secret is not configured, or with a
\* reply that lacks the tokens
RefreshOutcomes == {"ok", "http_error", "unconfigured", "incomplete"}

\* the seconds from now to the expires_at of a reply of Strava
ExpiresInInputs == {RefreshBuffer, 2 * RefreshBuffer - 1, 2 * RefreshBuffer}

\* the connection of a user: user_id is unique
ConnectionOf(user_id) == { c \in strava_connections : c.user_id = user_id }

\* the expiry test without the buffer
ExpiredNoBuffer(connection, now_timestamp) == connection.expires_at < now_timestamp

\* connection.expires_at < (now_timestamp + 300)
Expired(connection, now_timestamp) ==
    connection.expires_at < now_timestamp + RefreshBuffer

\* token_data of a successful refresh written to the connection
Refreshed(connection, expires_in) ==
    [connection EXCEPT !.access_token = connection.access_token + 1,
                       !.refresh_token = connection.refresh_token + 1,
                       !.expires_at = now + expires_in]

\* what a call of get_valid_token ends in: the status (200 for a returned
\* token), the token, the request made to Strava and the table it leaves
TokenResult(status, token, refresh, table) ==
    [status |-> status, token |-> token, refresh |-> refresh, connections |-> table]

\* get_valid_token(user_id, db), the refresh request ending as refresh says
get_valid_token(user_id, refresh, expires_in) ==
    IF ConnectionOf(user_id) = {}
    THEN TokenResult(404, Null, "none", strava_connections)
    ELSE LET connection == CHOOSE c \in ConnectionOf(user_id) : TRUE
         IN  IF ~ Expired(connection, now)
             THEN TokenResult(200, connection.access_token, "none", strava_connections)
             ELSE IF refresh = "unconfigured"
             THEN TokenResult(500, Null, "none", strava_connections)
             ELSE IF refresh = "http_error"
             THEN TokenResult(400, Null, refresh, strava_connections)
             ELSE IF refresh = "incomplete"
             THEN TokenResult(500, Null, refresh, strava_connections)
             ELSE TokenResult(200, Refreshed(connection, expires_in).access_token,
                              refresh,
                              (strava_connections \ {connection}) \cup
                                 { Refreshed(connection, expires_in) })

\* a call of get_valid_token for user u
GetValidToken(u, refresh, expires_in) ==
    LET result == get_valid_token(u, refresh, expires_in)
    IN  /\ \A c \in result.connections : c.access_token <= MaxTokens
        /\ strava_connections' = result.connections
        /\ response' = Respond("get_valid_token", u, 0, result.status,
                               { [access_token |-> result.token,
                                  refresh |-> result.refresh] })
        /\ UNCHANGED pipeline_vars
        /\ UNCHANGED <<users, invitations, friendships, gyms, grades, sessions,
                       ascents, now, inflight>>

\* refresh_access_token() by user u: the refresh whatever the expiry
RefreshAccessToken(u, refresh, expires_in) ==
    /\ LET answer(code) == Respond("refresh_access_token", u, 0, code, {})
       IN  IF ConnectionOf(u) = {}
           THEN response' = answer(404) /\ UNCHANGED strava_connections
           ELSE IF refresh = "unconfigured" \/ refresh = "incomplete"
           THEN response' = answer(500) /\ UNCHANGED strava_connections
           ELSE IF refresh = "http_error"
           THEN response' = answer(400) /\ UNCHANGED strava_connections
           ELSE \E connection \in ConnectionOf(u) :
                   /\ connection.access_token < MaxTokens
                   /\ strava_connections' = (strava_connections \ {connection}) \cup
                         { Refreshed(connection, expires_in) }
                   /\ response' = answer(200)
    /\ UNCHANGED pipeline_vars
    /\ UNCHANGED <<users, invitations, friendships, gyms, grades, sessions,
                   ascents, now, inflight>>

\* the columns the ORM class Session maps; the strava_activity_id column of
\* migration 007 is not among them
MappedSessionColumns == {"id", "user_id", "gym_id", "started_at", "ended_at"}

\* setattr(session, field, value) and db.commit(): an attribute that is not a
\* mapped column stays on the Python object and is not written
CommitAttribute(session, field, value) ==
    IF field \in MappedSessionColumns THEN [session EXCEPT ![field] = value]
    ELSE session

\* lines 387-394: the duration in seconds
DurationOf(session) ==
    IF session.started_at # Null /\ session.ended_at # Null
    THEN session.ended_at - session.started_at
    ELSE DefaultDuration

\* the logo conversion succeeds or raises
LogoOutcomes == {"ok", "fails"}

\* the POST to Strava returns or raises httpx.HTTPError
StravaOutcomes == {"ok", "http_error"}

\* the activity id of Strava's reply
ActivityIdInputs == {7}

\* what the handler sent: the track (of the logo, or of the gym's location
\* alone) or the plain activity, with the duration handed over
Handed(logo, track, duration_seconds, activity_id) ==
    { [logo |-> logo, sent |-> track, duration |-> duration_seconds,
       activity_id |-> activity_id] }

\* upload_session_to_strava(session_id) by user u
UploadSessionToStrava(u, session_id, refresh, expires_in, logo, strava, activity_id) ==
    /\ LET answer(code, body) ==
               Respond("upload_session_to_strava", u, session_id, code, body)
           token == get_valid_token(u, refresh, expires_in)
       IN  \E session \in OwnSession(u, session_id) :
             IF session = None
             THEN /\ response' = answer(404, {})
                  /\ UNCHANGED <<sessions, strava_connections>>
             ELSE IF token.status # 200
             THEN /\ response' = answer(token.status, {})
                  /\ UNCHANGED <<sessions, strava_connections>>
             ELSE /\ \A c \in token.connections : c.access_token <= MaxTokens
                  /\ strava_connections' = token.connections
                  /\ \E gym \in GymById(session.gym_id) :
                       LET track == IF gym # None /\ gym.located
                                    THEN IF logo = "ok" THEN "logo_track"
                                         ELSE "simple_track"
                                    ELSE "activity"
                           tried == IF gym # None /\ gym.located THEN logo ELSE "unused"
                       IN  IF strava = "http_error"
                           THEN /\ response' = answer(400,
                                       Handed(tried, track, DurationOf(session), Null))
                                /\ UNCHANGED sessions
                           ELSE /\ sessions' = (sessions \ {session}) \cup
                                       { CommitAttribute(session, "strava_activity_id",
                                                         activity_id) }
                                /\ response' = answer(200,
                                       Handed(tried, track, DurationOf(session),
                                              activity_id))
    /\ UNCHANGED pipeline_vars
    /\ UNCHANGED <<users, invitations, friendships, gyms, grades, ascents, now, inflight>>

\* user 1 is connected to Strava, user 2 is not
InitToken ==
    /\ NoPipeline
    /\ users = UserRows(UserIds)
    /\ invitations = {}
    /\ \E expires_in \in ExpiresInInputs :
          strava_connections = { [id |-> 1, user_id |-> 1, access_token |-> 1,
                                  refresh_token |-> 1, expires_at |-> expires_in] }
    /\ friendships = {}
    /\ gyms = { GymRow(1, TRUE), GymRow(2, FALSE) }
    /\ grades = {}
    /\ sessions = {}
    /\ ascents = {}
    /\ now = 0
    /\ inflight = <<>>
    /\ response = NoResponse

NextToken ==
    \/ Tick
    \/ \E u \in UserIds, refresh \in RefreshOutcomes, expires_in \in ExpiresInInputs :
          \/ GetValidToken(u, refresh, expires_in)
          \/ RefreshAccessToken(u, refresh, expires_in)

SpecToken == InitToken /\ [][NextToken]_vars

\* ended_at of an update_session request: any time, the first second here
EndedAtInputs == {0}

\* user 1 logs sessions, ends, reopens and edits them; both users upload
NextUpload ==
    \/ Tick
    \/ \E gym_id \in {1, 2} : CreateSession(1, gym_id)
    \/ \E id \in LogIdInputs :
          \/ \E ended_at \in EndedAtInputs : UpdateSession(1, id, [ended_at |-> ended_at])
          \/ EndSession(1, id)
          \/ ReopenSession(1, id)
          \/ \E u \in UserIds, refresh \in {"ok", "http_error"}, logo \in LogoOutcomes,
                strava \in StravaOutcomes, activity_id \in ActivityIdInputs :
                UploadSessionToStrava(u, id, refresh, 2 * RefreshBuffer, logo, strava,
                                      activity_id)

SpecUpload == InitToken /\ [][NextUpload]_vars

(* ------------------------------------------------------------------ *)
(* Statistics (routers/stats.py)                                       *)
(* ------------------------------------------------------------------ *)
\* [AscentStatus.SEND, AscentStatus.REPEAT, AscentStatus.FLASH]
SendStatuses == {"send", "repeat", "flash"}

\* the ascents of the sessions of user u
AscentsOfUser(u) ==
    { a \in ascents : \E s \in sessions : s.user_id = u /\ s.id = a.session_id }

\* send_ascents of get_my_stats
SendAscentsOf(u) == { a \in AscentsOfUser(u) : a.status \in SendStatuses }

\* the orders in which .all() may hand out the rows of a query
Orders(rows) ==
    { seq \in [1..Cardinality(rows) -> rows] :
        \A i, j \in 1..Cardinality(rows) : i # j => seq[i] # seq[j] }

\* the loop of lines 81-87 over the ascents left, from the running
\* max_difficulty and max_grade_ever (<<>> is None)
RECURSIVE MaxGradeLoop(_, _, _)
MaxGradeLoop(send_ascents, max_difficulty, max_grade_ever) ==
    IF send_ascents = <<>> THEN max_grade_ever
    ELSE LET grade == CHOOSE g \in GradeById(Head(send_ascents).grade_id) : TRUE
         IN  IF grade # None /\ grade.relative_difficulty > max_difficulty
             THEN MaxGradeLoop(Tail(send_ascents), grade.relative_difficulty,
                               <<grade.label>>)
             ELSE MaxGradeLoop(Tail(send_ascents), max_difficulty, max_grade_ever)

\* get_my_stats() by user u: the body carries max_grade_ever, nothing when
\* it is None
GetMyStats(u) ==
    /\ \E send_ascents \in Orders(SendAscentsOf(u)) :
         response' = Respond("get_my_stats", u, 0, 200,
                             { MaxGradeLoop(send_ascents, 0, <<>>)[k] :
                                 k \in 1..Len(MaxGradeLoop(send_ascents, 0, <<>>)) })
    /\ UNCHANGED <<gyms, grades, sessions, ascents>>
    /\ LogUnchanged

\* status of an ascent
StatusInputs == {"send", "flash", "project"}

LabelOf(grade_id) == IF grade_id = 1 THEN "Azul" ELSE "Rojo"

\* a log of one gym with two grades of any difficulty, a session of each
\* user, and ascents of any status in either session on either grade
InitStats ==
    /\ NoPipeline
    /\ users = UserRows(UserIds)
    /\ invitations = {}
    /\ strava_connections = {}
    /\ friendships = {}
    /\ gyms = { GymRow(1, TRUE) }
    /\ \E difficulty \in [{1, 2} -> DifficultyInputs] :
          grades = { [id |-> g, gym_id |-> 1, label |-> LabelOf(g),
                      relative_difficulty |-> difficulty[g]] : g \in {1, 2} }
    /\ sessions = { SessionRow(u, u, 1, 0) : u \in UserIds }
    /\ \E of \in [LogIdInputs -> UserIds], on \in [LogIdInputs -> {1, 2}],
          st \in [LogIdInputs -> StatusInputs] :
          ascents = { [id |-> a, session_id |-> of[a], grade_id |-> on[a],
                       status |-> st[a]] : a \in LogIdInputs }
    /\ now = 0
    /\ inflight = <<>>
    /\ response = NoResponse

NextStats == \E u \in UserIds : GetMyStats(u)

SpecStats == InitStats /\ [][NextStats]_vars

(* ------------------------------------------------------------------ *)
(* Accounts (routers/auth.py). register and update_profile are served   *)
(* like send_friend_request: the checks first, the commit later, with   *)
(* other requests in between.                                           *)
(* ------------------------------------------------------------------ *)
\* the users table without its unique indexes
UniqueUserUnchecked(row) == TRUE

\* unique=True on User.username and User.email: the row can be written
UniqueUser(row) ==
    ~ \E other \in users :
         /\ other.id # row.id
         /\ other.username = row.username \/ other.email = row.email

\* register(user_data), the checks: lines 37-51. UserCreate has no field for
\* an invitation token, so a token sent with the request is dropped; the
\* request keeps it here only to tell what was sent
RegisterRead(username, email, token) ==
    /\ Len(inflight) < MaxInflight
    /\ IF \E row \in users : row.email = email \/ row.username = username
       THEN /\ response' = Respond("register", 0, token, 400, {})
            /\ UNCHANGED inflight
       ELSE /\ inflight' = Serving(inflight, [op |-> "register", caller |-> 0,
                                 username |-> username, email |-> email,
                                 token |-> token])
            /\ UNCHANGED response
    /\ UNCHANGED pipeline_vars
    /\ UNCHANGED <<users, invitations, strava_connections, friendships, gyms, grades, sessions,
                   ascents, now>>

\* register, the write of the i-th request being served: lines 54-65
RegisterCommit(i) ==
    /\ i \in 1..Len(inflight)
    /\ inflight[i].op = "register"
    /\ LET r == inflight[i]
           user == [id |-> NextId(users), username |-> r.username, email |-> r.email]
       IN  IF UniqueUser(user)
           THEN /\ user.id <= MaxRowId
                /\ users' = users \cup {user}
                /\ response' = Respond("register", 0, r.token, 201, {user})
           ELSE /\ response' = Respond("register", 0, r.token, 500, {})
                /\ UNCHANGED users
    /\ inflight' = Without(inflight, i)
    /\ UNCHANGED pipeline_vars
    /\ UNCHANGED <<invitations, strava_connections, friendships, gyms, grades,
                   sessions, ascents, now>>

\* update_profile(user_data) by user u, the checks: lines 110-125; a field
\* that is not sent is Unset. A request that changes nothing writes nothing
UpdateProfileRead(u, username, email) ==
    /\ Len(inflight) < MaxInflight
    /\ \E current_user \in { row \in users : row.id = u } :
         LET answer(code) == Respond("update_profile", u, 0, code, {})
         IN  IF /\ email # Unset
                /\ email # current_user.email
                /\ \E row \in users : row.email = email
             THEN response' = answer(400) /\ UNCHANGED inflight
             ELSE IF /\ username # Unset
                     /\ username # current_user.username
                     /\ \E row \in users : row.username = username
             THEN response' = answer(400) /\ UNCHANGED inflight
             ELSE IF /\ email \in {Unset, current_user.email}
                     /\ username \in {Unset, current_user.username}
             THEN response' = answer(200) /\ UNCHANGED inflight
             ELSE /\ inflight' = Serving(inflight,
                        [op |-> "update_profile", caller |-> u,
                         username |-> IF username = current_user.username
                                      THEN Unset ELSE username,
                         email |-> IF email = current_user.email
                                   THEN Unset ELSE email,
                         token |-> Unset])
                  /\ UNCHANGED response
    /\ UNCHANGED pipeline_vars
    /\ UNCHANGED <<users, invitations, strava_connections, friendships, gyms, grades, sessions,
                   ascents, now>>

\* update_profile, the write of the i-th request being served: lines 127-139,
\* an UPDATE of the changed columns of the caller's row
UpdateProfileCommit(i) ==
    /\ i \in 1..Len(inflight)
    /\ inflight[i].op = "update_profile"
    /\ LET r == inflight[i]
       IN  \E row \in { q \in users : q.id = r.caller } :
             LET user == [id |-> row.id,
                          username |-> IF r.username = Unset THEN row.username
                                       ELSE r.username,
                          email |-> IF r.email = Unset THEN row.email ELSE r.email]
             IN  IF UniqueUser(user)
                 THEN /\ users' = (users \ {row}) \cup {user}
                      /\ response' = Respond("update_profile", r.caller, 0, 200, {})
                 ELSE /\ response' = Respond("update_profile", r.caller, 0, 500, {})
                      /\ UNCHANGED users
    /\ inflight' = Without(inflight, i)
    /\ UNCHANGED pipeline_vars
    /\ UNCHANGED <<invitations, strava_connections, friendships, gyms, grades,
                   sessions, ascents, now>>

\* username and email of a request
UsernameInputs == {"ana", "ben", "cat"}

EmailInputs == {"ana@x.es", "ben@x.es", "cat@x.es"}

\* invitation_token of a request: none, and the tokens of the fixtures
TokenInputs == {Unset, "valid", "used", "expired", "unknown"}

\* one invitation that can be used, one used, one expired an hour ago
InvitationRows ==
    { [id |-> 1, token |-> "valid", created_by_user_id |-> 1, expires_at |-> 24,
       used |-> FALSE],
      [id |-> 2, token |-> "used", created_by_user_id |-> 1, expires_at |-> 24,
       used |-> TRUE],
      [id |-> 3, token |-> "expired", created_by_user_id |-> 1, expires_at |-> -1,
       used |-> FALSE] }

\* one registered user and the invitations they made
InitAuth ==
    /\ NoPipeline
    /\ users = UserRows({1})
    /\ invitations = InvitationRows
    /\ strava_connections = {}
    /\ friendships = {}
    /\ gyms = {}
    /\ grades = {}
    /\ sessions = {}
    /\ ascents = {}
    /\ now = 0
    /\ inflight = <<>>
    /\ response = NoResponse

\* registrations and profile updates without a token
NextAuth ==
    \/ \E username \in UsernameInputs, email \in EmailInputs :
          RegisterRead(username, email, Unset)
    \/ \E u \in UserIds, username \in UsernameInputs : UpdateProfileRead(u, username, Unset)
    \/ \E u \in UserIds, email \in EmailInputs : UpdateProfileRead(u, Unset, email)
    \/ \E i \in 1..MaxInflight : RegisterCommit(i) \/ UpdateProfileCommit(i)

SpecAuth == InitAuth /\ [][NextAuth]_vars

\* registrations of new users with every kind of token
NextInvite ==
    \/ \E u \in {2, 3}, token \in TokenInputs :
          RegisterRead(UsernameOf(u), EmailOf(u), token)
    \/ \E i \in 1..MaxInflight : RegisterCommit(i)

SpecInvite == InitAuth /\ [][NextInvite]_vars

\* the step answers an accept_friend_request or a reject_friend_request
AnswersRequestDecision ==
    /\ response' # response
    /\ response'.op \in {"accept_friend_request", "reject_friend_request"}

\* the row the answered call names is pending and addressed to its caller
NamesOwnPendingRequest ==
    \E f \in friendships : /\ f.id = response'.arg
                           /\ f.friend_id = response'.caller
                           /\ f.status = "pending"

\* the rows that are accepted after the step and were not before
NewlyAccepted == { f \in friendships' \ friendships : f.status = "accepted" }

\* C21: accept_friend_request and reject_friend_request act only when the
\* row with the given id is pending and the caller is its recipient;
\* otherwise the call returns 404 and no Friendship row is changed or
\* deleted. A friendship becomes accepted only through a call of the user
\* who received the request.
C21_OnlyRecipientDecides ==
    [][ /\ AnswersRequestDecision /\ ~ NamesOwnPendingRequest =>
             response'.status = 404 /\ friendships' = friendships
        /\ \A f \in NewlyAccepted :
             response' # response /\ response'.caller = f.friend_id ]_vars

\* a call of get_valid_token has answered or written
TokenCall ==
    /\ response'.op = "get_valid_token"
    /\ response' # response \/ strava_connections' # strava_connections

\* C28: get_valid_token returns the stored access token without a refresh when
\* the stored expires_at is at least now + 300 seconds, and otherwise returns a
\* token only after a refresh request succeeded in that call (the token of the
\* reply, which is stored); with no connection it raises 404, when the refresh
\* request fails it raises 400, and whenever it raises the stored access_token,
\* refresh_token and expires_at are unchanged.
C28_ValidToken ==
    [][ TokenCall =>
          LET mine == { c \in strava_connections : c.user_id = response'.caller }
              stored == { c \in strava_connections' : c.user_id = response'.caller }
          IN  /\ mine = {} => response'.status = 404
              /\ \A c \in mine, b \in response'.body :
                    IF c.expires_at >= now + RefreshBuffer
                    THEN /\ response'.status = 200
                         /\ b.access_token = c.access_token
                         /\ b.refresh = "none"
                    ELSE /\ response'.status = 200 =>
                            /\ b.refresh = "ok"
                            /\ b.access_token # c.access_token
                            /\ \A d \in stored : d.access_token = b.access_token
                         /\ b.refresh = "http_error" => response'.status = 400
              /\ response'.status # 200 =>
                    /\ response'.status \in {404, 400, 500}
                    /\ strava_connections' = strava_connections ]_vars

\* a token came back after the refresh of a connection that was to expire
\* within 300 seconds, and it is the token now stored
C28_Witness ==
    /\ response.op = "get_valid_token"
    /\ response.status = 200
    /\ \E c \in strava_connections, b \in response.body :
          /\ c.user_id = response.caller
          /\ b.refresh = "ok"
          /\ b.access_token = c.access_token
          /\ c.access_token > 1

\* C29: the duration that upload_session_to_strava hands to the track
\* serializer and to Strava is never negative, in every session state reachable
\* through create_session, update_session, end_session and reopen_session.
C29_DurationNotNegative ==
    response.op = "upload_session_to_strava" =>
        \A handed \in response.body : handed.duration >= 0

\* a call of upload_session_to_strava has answered
UploadAnswered ==
    /\ response' # response
    /\ response'.op = "upload_session_to_strava"

\* C30: upload_session_to_strava records the activity id of Strava's reply on
\* the session after the upload or activity request returned successfully, and
\* never otherwise: when the session is not the caller's, the token cannot be
\* obtained or the Strava request fails, the handler ends in an error and the
\* session's strava_activity_id is unchanged. A failure of the logo conversion
\* does not abort the upload: the track of the gym's location is sent.
C30_ActivityIdRecorded ==
    [][ /\ \A after \in sessions', before \in sessions :
               /\ after.id = before.id
               /\ after.strava_activity_id # before.strava_activity_id
               => /\ response'.op = "upload_session_to_strava"
                  /\ response'.status = 200
                  /\ response'.arg = after.id
        /\ UploadAnswered /\ response'.status # 200 => sessions' = sessions
        /\ UploadAnswered =>
              \A handed \in response'.body :
                 handed.logo = "fails" => handed.sent = "simple_track"
        /\ UploadAnswered /\ response'.status = 200 =>
              \A handed \in response'.body :
                 \E session \in sessions' :
                    /\ session.id = response'.arg
                    /\ session.strava_activity_id = handed.activity_id ]_vars

\* the handlers that write a session or its ascents
SessionWrites ==
    {"update_session", "end_session", "reopen_session", "delete_session",
     "add_ascent", "update_ascent", "delete_ascent"}

\* the owners of the session a request r names, directly or through its ascent
TargetOwners(r) ==
    IF r.op \in {"update_ascent", "delete_ascent"}
    THEN { s.user_id : s \in { t \in sessions :
                                 \E a \in ascents : a.id = r.arg /\ a.session_id = t.id } }
    ELSE { s.user_id : s \in { t \in sessions : t.id = r.arg } }

\* C22: update_session, end_session, reopen_session, delete_session,
\* add_ascent, update_ascent and delete_ascent change a session or its ascents
\* only when the caller owns the session; for any other caller, an accepted
\* friend included, the call fails (404) and sessions and ascents are unchanged.
C22_OnlyOwnerWrites ==
    [][ /\ \A s \in (sessions \ sessions') \cup (sessions' \ sessions) :
              response'.caller = s.user_id
        /\ \A a \in (ascents \ ascents') \cup (ascents' \ ascents) :
              \E s \in sessions : s.id = a.session_id /\ s.user_id = response'.caller
        /\ ( /\ response' # response
             /\ response'.op \in SessionWrites
             /\ response'.caller \notin TargetOwners(response') )
           => /\ response'.status = 404
              /\ sessions' = sessions
              /\ ascents' = ascents ]_vars

\* an accepted friend of the owner called a writing handler on the owner's
\* session or ascent and was refused
C22_Witness ==
    /\ response.op \in SessionWrites
    /\ TargetOwners(response) # {}
    /\ \A owner \in TargetOwners(response) :
          /\ owner # response.caller
          /\ \E f \in Between(response.caller, owner) : f.status = "accepted"
    /\ response.status = 404

(* ------------------------------------------------------------------ *)
(* Properties of the climbing log                                      *)
(* ------------------------------------------------------------------ *)
\* the grade of the ascent is a grade of the gym of the ascent's session
GradeAtSessionGym(a) ==
    \A s \in sessions, g \in grades :
       s.id = a.session_id /\ g.id = a.grade_id => g.gym_id = s.gym_id

\* C15: in every state reachable by add_ascent, update_ascent, update_session
\* and grade create / update operations, each ascent's grade belongs to the
\* gym of the ascent's session (grade.gym_id = session.gym_id).
C15_GradeOfSessionGym == \A a \in ascents : GradeAtSessionGym(a)

\* the ascents whose session or whose grade is gone, and the sessions and
\* grades whose gym is gone
Dangling(gs, grs, ss, as) ==
    { a \in as : ~ \E s \in ss : s.id = a.session_id }
      \cup { a \in as : ~ \E g \in grs : g.id = a.grade_id }
      \cup { s \in ss : ~ \E g \in gs : g.id = s.gym_id }
      \cup { g \in grs : ~ \E gym \in gs : gym.id = g.gym_id }

\* the last request served was a delete that succeeded
Deleted(op) == response.op = op /\ response.status = 204

\* C18: deletes cascade so that references never dangle: after any sequence
\* of delete_session, delete_ascent, delete_grade and delete_gym calls every
\* remaining ascent references an existing session and an existing grade,
\* and every remaining session and grade references an existing gym; a
\* delete_session that succeeded has left no ascent of that session.
C18_NoDanglingReference ==
    /\ Dangling(gyms, grades, sessions, ascents) = {}
    /\ Deleted("delete_session") =>
          ~ \E a \in ascents : a.session_id = response.arg

\* a delete has removed a row that other rows referenced, and rows remain
C18_Witness ==
    /\ \/ Deleted("delete_session") \/ Deleted("delete_grade") \/ Deleted("delete_gym")
    /\ Cardinality(ascents) < MaxLogRows
    /\ ascents # {}
    /\ sessions # {}

(* ------------------------------------------------------------------ *)
(* Properties of the statistics                                        *)
(* ------------------------------------------------------------------ *)
\* the last request served was get_my_stats
StatsAnswered == response.op = "get_my_stats"

\* the grades of the ascents of the caller that count as sends
SentGrades ==
    { g \in grades : \E a \in SendAscentsOf(response.caller) : a.grade_id = g.id }

\* the labels of the hardest of these grades
HardestSentLabels ==
    { g.label : g \in { h \in SentGrades :
                          \A k \in SentGrades :
                             k.relative_difficulty <= h.relative_difficulty } }

\* C19: get_my_stats reports as max_grade_ever the label of the grade with
\* the greatest relative_difficulty among the user's ascents whose status is
\* send, repeat or flash, and reports None exactly when the user has no such
\* ascent, for every allowed relative_difficulty.
C19_MaxGradeEver ==
    StatsAnswered =>
       IF SendAscentsOf(response.caller) = {}
       THEN response.body = {}
       ELSE response.body # {} /\ response.body \subseteq HardestSentLabels

(* ------------------------------------------------------------------ *)
(* Properties of the accounts                                          *)
(* ------------------------------------------------------------------ *)
\* the token is the token of an invitation that is neither used nor expired
UsableToken(token) ==
    \E invitation \in invitations :
       /\ invitation.token = token
       /\ ~ invitation.used
       /\ invitation.expires_at > now

\* C16: register creates a user only when the request carries an invitation
\* token that exists, has not been used and has not expired: a registration
\* answered with 201 carried such a token.
C16_RegisterNeedsInvitation ==
    response.op = "register" /\ response.status = 201 => UsableToken(response.arg)

\* no two users share an email or a username
UniqueEmailAndUsername(table) ==
    \A a, b \in table : a.id # b.id => a.email # b.email /\ a.username # b.username

\* the step answers a register or an update_profile with a refusal
Refused ==
    /\ response' # response
    /\ response'.op \in {"register", "update_profile"}
    /\ response'.status \in {400, 500}

\* C17: after any interleaving of register and update_profile calls no two
\* users share an email and no two users share a username, and a register or
\* update_profile that is refused leaves every user record unchanged.
C17_UniqueEmailAndUsername ==
    [][ /\ UniqueEmailAndUsername(users')
        /\ Refused => users' = users ]_vars

\* a registration that passed its checks was refused at the commit, because a
\* request served in between took the username or the email
C17_Witness ==
    /\ response.op \in {"register", "update_profile"}
    /\ response.status = 500
    /\ Cardinality(users) > 1

====
